---------------------------- MODULE Spec2Model ----------------------------
(***************************************************************************)
(* Diff segmentation and filtering of vonhoff/wcag-review-demo.            *)
(*                                                                         *)
(* DiffFilter (src/src/diff_filter.py) and AnthropicCodeReview._filter_diff *)
(* (src/src/anthropic_code_review.py) are pure functions of a diff text.   *)
(* A text is a sequence of one-character strings, so that split, join,     *)
(* startswith, slicing, strip and len are computed as Python computes them. *)
(* The state holds the text the caller passes around, the DiffFilter       *)
(* object's fields and what the last call returned.                        *)
(***************************************************************************)
EXTENDS Integers, Sequences, FiniteSets, TLC

(***************************************************************************)
(* Bounds of the model.                                                    *)
(***************************************************************************)
\* Most lines of an input diff.
MaxLines == 3
\* Largest min_line_changes / max_line_changes argument tried.
MaxChanges == 1
\* Most successive filter calls on the text (each call filters the
\* previous call's result).
MaxPasses == 2
\* AnthropicCodeReview.MAX_DIFF_SIZE (50000 in the code), scaled to the
\* size of the model's diffs.
MAX_DIFF_SIZE == 20

(***************************************************************************)
(* Python's str and list operations.                                       *)
(***************************************************************************)
NL == "\n"

\* The characters str.strip() removes (the ASCII ones the inputs may hold).
Whitespace == {" ", "\n", "\t"}

Min(a, b) == IF a < b THEN a ELSE b

\* max(0, n), diff_filter.py line 43.
Max0(n) == IF n < 0 THEN 0 ELSE n

\* s.startswith(p)
StartsWith(s, p) == Len(s) >= Len(p) /\ SubSeq(s, 1, Len(p)) = p

\* s[n:]
SliceFrom(s, n) == SubSeq(s, n + 1, Len(s))

\* s[:n], n >= 0
SliceTo(s, n) == SubSeq(s, 1, Min(n, Len(s)))

\* s.split("\n"): never empty, "" gives [""].
RECURSIVE Split(_)
Split(s) ==
    IF \A i \in 1..Len(s) : s[i] # NL
    THEN <<s>>
    ELSE LET i == CHOOSE k \in 1..Len(s) :
                      s[k] = NL /\ \A j \in 1..(k - 1) : s[j] # NL
         IN  <<SubSeq(s, 1, i - 1)>> \o Split(SubSeq(s, i + 1, Len(s)))

\* sep.join(parts): [] gives "".
RECURSIVE Join(_, _)
Join(sep, parts) ==
    IF Len(parts) = 0 THEN <<>>
    ELSE IF Len(parts) = 1 THEN parts[1]
    ELSE parts[1] \o sep \o Join(sep, Tail(parts))

\* s.strip() is empty: every character is whitespace.
StripIsEmpty(s) == \A i \in 1..Len(s) : s[i] \in Whitespace

(***************************************************************************)
(* Regular expressions.  Every pattern of the repository and of its tests  *)
(* is a literal text with an optional ^ in front and an optional $ behind; *)
(* a pattern is the record of the three.                                   *)
(***************************************************************************)
Pattern(start, lit, end) == [start |-> start, lit |-> lit, end |-> end]

\* A mutant of the pattern test: pattern.match for pattern.search, which
\* ties every pattern to the start of the filename.
Search_Match(p, s) ==
    /\ Len(p.lit) <= Len(s)
    /\ SubSeq(s, 1, Len(p.lit)) = p.lit
    /\ p.end => Len(p.lit) = Len(s)

\* pattern.search(s) / re.search(pattern, s): the literal occurs at some
\* position of s, at the first one under ^, ending at the last one under $.
Search(p, s) ==
    \E i \in 1..(Len(s) + 1) :
        /\ i + Len(p.lit) - 1 <= Len(s)
        /\ SubSeq(s, i, i + Len(p.lit) - 1) = p.lit
        /\ p.start => i = 1
        /\ p.end => i + Len(p.lit) - 1 = Len(s)

(***************************************************************************)
(* DiffFilter                                                              *)
(***************************************************************************)
HeaderA == <<"-", "-", "-", " ", "a", "/">>
HeaderB == <<"+", "+", "+", " ", "b", "/">>
Plus3 == <<"+", "+", "+">>
Minus3 == <<"-", "-", "-">>

\* An optional value: <<>> is None, <<v>> is v.
None == <<>>
Some(v) == <<v>>
IsNone(o) == Len(o) = 0

\* Python's truth value of `current_file`: neither None nor "".
Truthy(o) == ~IsNone(o) /\ Len(o[1]) > 0

\* DiffFilter._count_additions
count_additions(lines) ==
    Cardinality({i \in 1..Len(lines) :
        StartsWith(lines[i], <<"+">>) /\ ~StartsWith(lines[i], Plus3)})

\* DiffFilter._count_deletions
count_deletions(lines) ==
    Cardinality({i \in 1..Len(lines) :
        StartsWith(lines[i], <<"-">>) /\ ~StartsWith(lines[i], Minus3)})

\* The dict that _parse_diff_by_files appends for a file.
FileDiff(current_file, current_content) ==
    [filename  |-> current_file[1],
     content   |-> Join(<<NL>>, current_content),
     additions |-> count_additions(current_content),
     deletions |-> count_deletions(current_content)]

\* A mutant of the loop of _parse_diff_by_files: a line is appended to
\* current_content also when no file has begun.
ParseLine_KeepsLeading(st, line) ==
    IF StartsWith(line, HeaderA)
    THEN LET flush == Truthy(st.current_file) /\ Len(st.current_content) > 0
         IN  [files |-> IF flush
                        THEN Append(st.files,
                                    FileDiff(st.current_file, st.current_content))
                        ELSE st.files,
              current_file |-> Some(SliceFrom(line, 6)),
              current_content |-> Append(IF flush THEN <<>> ELSE st.current_content,
                                         line)]
    ELSE [st EXCEPT !.current_content = Append(@, line)]

\* One turn of the loop of _parse_diff_by_files on `line`; st holds the
\* locals files, current_file and current_content.
ParseLine(st, line) ==
    IF StartsWith(line, HeaderA)
    THEN LET flush == Truthy(st.current_file) /\ Len(st.current_content) > 0
         IN  [files |-> IF flush
                        THEN Append(st.files,
                                    FileDiff(st.current_file, st.current_content))
                        ELSE st.files,
              current_file |-> Some(SliceFrom(line, 6)),
              current_content |-> Append(IF flush THEN <<>> ELSE st.current_content,
                                         line)]
    ELSE IF Truthy(st.current_file)
    THEN [st EXCEPT !.current_content = Append(@, line)]
    ELSE st

RECURSIVE ParseLoop(_, _)
ParseLoop(st, lines) ==
    IF Len(lines) = 0 THEN st
    ELSE ParseLoop(ParseLine(st, lines[1]), Tail(lines))

\* DiffFilter._parse_diff_by_files
parse_diff_by_files(diff) ==
    LET st == ParseLoop([files |-> <<>>, current_file |-> None,
                         current_content |-> <<>>], Split(diff))
    IN  IF Truthy(st.current_file) /\ Len(st.current_content) > 0
        THEN Append(st.files, FileDiff(st.current_file, st.current_content))
        ELSE st.files

\* any(pattern.search(filename) for pattern in patterns)
AnySearch(patterns, filename) ==
    \E i \in 1..Len(patterns) : Search(patterns[i], filename)

\* A mutant of _should_include_file_diff: `<=` for `<` in the test of the
\* lower bound, so that a total equal to min_line_changes is dropped.
should_include_file_diff_StrictMin(self, file_diff) ==
    LET total_changes == file_diff.additions + file_diff.deletions
    IN  IF Len(self.exclude_patterns) > 0
           /\ AnySearch(self.exclude_patterns, file_diff.filename)
        THEN FALSE
        ELSE IF Len(self.include_patterns) > 0
                /\ ~AnySearch(self.include_patterns, file_diff.filename)
        THEN FALSE
        ELSE IF total_changes <= self.min_line_changes
        THEN FALSE
        ELSE ~(~IsNone(self.max_line_changes)
               /\ total_changes > self.max_line_changes[1])

\* A mutant of _should_include_file_diff: the include patterns are tried
\* first and a match returns True at once, before the exclude patterns.
should_include_file_diff_IncludeFirst(self, file_diff) ==
    LET total_changes == file_diff.additions + file_diff.deletions
    IN  IF Len(self.include_patterns) > 0
           /\ AnySearch(self.include_patterns, file_diff.filename)
        THEN TRUE
        ELSE IF Len(self.exclude_patterns) > 0
                /\ AnySearch(self.exclude_patterns, file_diff.filename)
        THEN FALSE
        ELSE IF Len(self.include_patterns) > 0
        THEN FALSE
        ELSE IF total_changes < self.min_line_changes
        THEN FALSE
        ELSE ~(~IsNone(self.max_line_changes)
               /\ total_changes > self.max_line_changes[1])

\* DiffFilter._should_include_file_diff
should_include_file_diff(self, file_diff) ==
    LET total_changes == file_diff.additions + file_diff.deletions
    IN  IF Len(self.exclude_patterns) > 0
           /\ AnySearch(self.exclude_patterns, file_diff.filename)
        THEN FALSE
        ELSE IF Len(self.include_patterns) > 0
                /\ ~AnySearch(self.include_patterns, file_diff.filename)
        THEN FALSE
        ELSE IF total_changes < self.min_line_changes
        THEN FALSE
        ELSE ~(~IsNone(self.max_line_changes)
               /\ total_changes > self.max_line_changes[1])

\* A mutant of the loop of filter_diff: insert(0, ...) for append, so that
\* the retained contents come out in reverse order.
RECURSIVE FilteredDiffs_Reversed(_, _)
FilteredDiffs_Reversed(self, file_diffs) ==
    IF Len(file_diffs) = 0 THEN <<>>
    ELSE FilteredDiffs_Reversed(self, Tail(file_diffs))
         \o (IF should_include_file_diff(self, file_diffs[1])
             THEN <<file_diffs[1].content>> ELSE <<>>)

\* The filtered_diffs list of filter_diff: the content of every file diff
\* that _should_include_file_diff accepts, in the order of file_diffs.
RECURSIVE FilteredDiffs(_, _)
FilteredDiffs(self, file_diffs) ==
    IF Len(file_diffs) = 0 THEN <<>>
    ELSE (IF should_include_file_diff(self, file_diffs[1])
          THEN <<file_diffs[1].content>> ELSE <<>>)
         \o FilteredDiffs(self, Tail(file_diffs))

\* A mutant of the first test of filter_diff: `if not diff` for
\* `if not diff.strip()`.
ReturnsEarly_NoStrip(diff) == Len(diff) = 0

\* Whether filter_diff returns at its first test, before any segmentation.
ReturnsEarly(diff) == StripIsEmpty(diff)

\* A mutant of filter_diff: every segment is joined, whatever
\* _should_include_file_diff says of it.
filter_diff_KeepsEvery(self, diff) ==
    IF ReturnsEarly(diff) THEN <<>>
    ELSE LET file_diffs == parse_diff_by_files(diff)
         IN  Join(<<NL, NL>>, [i \in 1..Len(file_diffs) |-> file_diffs[i].content])

\* A mutant of filter_diff: "\n".join for "\n\n".join, the direct
\* concatenation of the retained segments.
filter_diff_JoinNewline(self, diff) ==
    IF ReturnsEarly(diff) THEN <<>>
    ELSE Join(<<NL>>, FilteredDiffs(self, parse_diff_by_files(diff)))

\* DiffFilter.filter_diff
filter_diff(self, diff) ==
    IF ReturnsEarly(diff) THEN <<>>
    ELSE Join(<<NL, NL>>, FilteredDiffs(self, parse_diff_by_files(diff)))

\* DiffFilter.__init__
\* The locals files, current_file and current_content of
\* _parse_diff_by_files as lines 78-80 set them.
NoLocals == [files |-> <<>>, current_file |-> None, current_content |-> <<>>]

\* "Add the last file" of _parse_diff_by_files (lines 100-109): what it
\* returns once its loop has left the locals st.
ParseFinish(st) ==
    IF Truthy(st.current_file) /\ Len(st.current_content) > 0
    THEN Append(st.files, FileDiff(st.current_file, st.current_content))
    ELSE st.files

\* A mutant of the last test of _should_include_file_diff: the
\* `is not None` part left out, so that the comparison is always made.
ComparesWithMax_Unguarded(self) == TRUE

\* Whether the last line of _should_include_file_diff goes on to
\* `total_changes > self.max_line_changes`: its `and` stops at a false
\* `self.max_line_changes is not None`.
ComparesWithMax(self) == ~IsNone(self.max_line_changes)

\* The exception that self._should_include_file_diff(file_diff) ends in, or
\* None: `>` between an int and None is a TypeError.
should_include_file_diff_raises(self, file_diff) ==
    LET total_changes == file_diff.additions + file_diff.deletions
        reaches_last_line ==
            /\ ~(Len(self.exclude_patterns) > 0
                 /\ AnySearch(self.exclude_patterns, file_diff.filename))
            /\ ~(Len(self.include_patterns) > 0
                 /\ ~AnySearch(self.include_patterns, file_diff.filename))
            /\ ~(total_changes < self.min_line_changes)
    IN  IF reaches_last_line /\ ComparesWithMax(self) /\ IsNone(self.max_line_changes)
        THEN Some("TypeError")
        ELSE None

\* sum(...) over a list of numbers.
RECURSIVE Sum(_)
Sum(numbers) ==
    IF numbers = <<>> THEN 0 ELSE Head(numbers) + Sum(Tail(numbers))

\* A mutant of get_summary: the diff goes through the object's filter first,
\* so that only the retained files are counted.
get_summary_Retained(self, diff) ==
    LET file_diffs == parse_diff_by_files(filter_diff(self, diff))
        total_additions == Sum([i \in 1..Len(file_diffs) |-> file_diffs[i].additions])
        total_deletions == Sum([i \in 1..Len(file_diffs) |-> file_diffs[i].deletions])
    IN  [files_changed |-> Len(file_diffs),
         additions     |-> total_additions,
         deletions     |-> total_deletions,
         total_changes |-> total_additions + total_deletions]

\* The dict get_summary returns for the file diffs it has parsed.
Summarize(file_diffs) ==
    LET total_additions == Sum([i \in 1..Len(file_diffs) |-> file_diffs[i].additions])
        total_deletions == Sum([i \in 1..Len(file_diffs) |-> file_diffs[i].deletions])
    IN  [files_changed |-> Len(file_diffs),
         additions     |-> total_additions,
         deletions     |-> total_deletions,
         total_changes |-> total_additions + total_deletions]

\* self.get_summary(diff)
get_summary(self, diff) ==
    LET file_diffs == parse_diff_by_files(diff)
        total_additions == Sum([i \in 1..Len(file_diffs) |-> file_diffs[i].additions])
        total_deletions == Sum([i \in 1..Len(file_diffs) |-> file_diffs[i].deletions])
    IN  [files_changed |-> Len(file_diffs),
         additions     |-> total_additions,
         deletions     |-> total_deletions,
         total_changes |-> total_additions + total_deletions]

DiffFilter(include_patterns, exclude_patterns, min_line_changes, max_line_changes) ==
    [include_patterns |-> include_patterns,
     exclude_patterns |-> exclude_patterns,
     min_line_changes |-> Max0(min_line_changes),
     max_line_changes |-> max_line_changes]

\* The pattern that a text without ( and [ compiles to: its ^ in front and
\* its $ behind are anchors, what lies between is the literal.
Compiled(raw) ==
    LET start == Len(raw) > 0 /\ raw[1] = "^"
        rest  == IF start THEN Tail(raw) ELSE raw
        end   == Len(rest) > 0 /\ rest[Len(rest)] = "$"
    IN  Pattern(start, IF end THEN SubSeq(rest, 1, Len(rest) - 1) ELSE rest, end)

\* A mutant of re.compile(p): re.compile(p) under `except re.error`, with
\* re.compile(re.escape(p)) as the fallback, so that every text compiles.
re_compile_Escaped(raw) ==
    IF \E i \in 1..Len(raw) : raw[i] \in {"(", "["}
    THEN Some(Pattern(FALSE, raw, FALSE))
    ELSE Some(Compiled(raw))

\* re.compile(p): None stands for re.error, which an unclosed ( or [ gives.
re_compile(raw) ==
    IF \E i \in 1..Len(raw) : raw[i] \in {"(", "["}
    THEN None
    ELSE Some(Compiled(raw))

\* DiffFilter.__init__ on pattern texts: the exception it raises and the
\* object it leaves, one of the two None.
DiffFilter_init(include_patterns, exclude_patterns, min_line_changes, max_line_changes) ==
    LET includes == [i \in 1..Len(include_patterns) |-> re_compile(include_patterns[i])]
        excludes == [i \in 1..Len(exclude_patterns) |-> re_compile(exclude_patterns[i])]
    IN  IF \/ \E i \in 1..Len(includes) : IsNone(includes[i])
           \/ \E i \in 1..Len(excludes) : IsNone(excludes[i])
        THEN [raised |-> Some("re.error"), self |-> None]
        ELSE [raised |-> None,
              self   |-> Some(DiffFilter([i \in 1..Len(includes) |-> includes[i][1]],
                                         [i \in 1..Len(excludes) |-> excludes[i][1]],
                                         min_line_changes, max_line_changes))]

(***************************************************************************)
(* AnthropicCodeReview                                                     *)
(***************************************************************************)
\* AnthropicCodeReview.EXCLUDE_PATTERNS
EXCLUDE_PATTERNS ==
    << Pattern(FALSE, <<"p","a","c","k","a","g","e","-","l","o","c","k",
                        ".","j","s","o","n">>, TRUE),
       Pattern(FALSE, <<"y","a","r","n",".","l","o","c","k">>, TRUE),
       Pattern(FALSE, <<".","m","i","n",".","j","s">>, TRUE),
       Pattern(FALSE, <<".","m","i","n",".","c","s","s">>, TRUE),
       Pattern(FALSE, <<"d","i","s","t","/">>, FALSE),
       Pattern(FALSE, <<"b","u","i","l","d","/">>, FALSE),
       Pattern(FALSE, <<"n","o","d","e","_","m","o","d","u","l","e","s","/">>,
               FALSE) >>

\* A mutant of "Process previous file": the test of skip_file is left out,
\* so that the lines of an excluded file are kept too.
ReviewFlush_KeepsSkipped(st) ==
    IF ~IsNone(st.current_filename)
    THEN st.filtered_lines \o st.current_file_lines
    ELSE st.filtered_lines

\* "Process previous file" of _filter_diff (lines 119-123 and 134-138):
\* the lines of the current file are kept unless the file is skipped.
ReviewFlush(st) ==
    IF ~IsNone(st.current_filename) /\ ~st.skip_file
    THEN st.filtered_lines \o st.current_file_lines
    ELSE st.filtered_lines

\* One turn of the loop of _filter_diff on `line`.
ReviewLine(st, line) ==
    IF StartsWith(line, HeaderA) \/ StartsWith(line, HeaderB)
    THEN [filtered_lines     |-> ReviewFlush(st),
          current_filename   |-> Some(SliceFrom(line, 6)),
          current_file_lines |-> <<line>>,
          skip_file          |-> AnySearch(EXCLUDE_PATTERNS, SliceFrom(line, 6))]
    ELSE IF Len(st.current_file_lines) > 0
    THEN [st EXCEPT !.current_file_lines = Append(@, line)]
    ELSE st

RECURSIVE ReviewLoop(_, _)
ReviewLoop(st, lines) ==
    IF Len(lines) = 0 THEN st
    ELSE ReviewLoop(ReviewLine(st, lines[1]), Tail(lines))

\* filtered_diff as line 140 of _filter_diff sets it, before the size check.
ReviewJoined(diff) ==
    Join(<<NL>>, ReviewFlush(ReviewLoop([filtered_lines     |-> <<>>,
                                         current_filename   |-> None,
                                         current_file_lines |-> <<>>,
                                         skip_file          |-> FALSE],
                                        Split(diff))))

\* A mutant of the size check: filtered_diff[MAX_DIFF_SIZE:] for
\* filtered_diff[:MAX_DIFF_SIZE], which keeps what should be cut.
Truncate_KeepsRest(filtered_diff) ==
    IF Len(filtered_diff) > MAX_DIFF_SIZE
    THEN SliceFrom(filtered_diff, MAX_DIFF_SIZE)
    ELSE filtered_diff

\* A mutant of the size check: the cut is one character short.
Truncate_OneShort(filtered_diff) ==
    IF Len(filtered_diff) > MAX_DIFF_SIZE
    THEN SliceTo(filtered_diff, MAX_DIFF_SIZE - 1)
    ELSE filtered_diff

\* The size check of _filter_diff (lines 149-156).
Truncate(filtered_diff) ==
    IF Len(filtered_diff) > MAX_DIFF_SIZE
    THEN SliceTo(filtered_diff, MAX_DIFF_SIZE)
    ELSE filtered_diff

\* AnthropicCodeReview._filter_diff
review_filter_diff(diff) == Truncate(ReviewJoined(diff))

(***************************************************************************)
(* AnthropicResponseParser.parse_response.  JSON texts are read character  *)
(* by character; the texts of the model hold no escape sequence, no        *)
(* fraction and no true or false.  A Python value is the record of its     *)
(* type and its content.                                                   *)
(***************************************************************************)
PyNone == [t |-> "NoneType", v |-> <<>>]
PyStr(s) == [t |-> "str", v |-> s]
PyInt(digits) == [t |-> "int", v |-> digits]
PyList(items) == [t |-> "list", v |-> items]

\* The dict of the (key, value) pairs of a JSON object: of two members
\* with one key the later one stays.
PyDict(pairs) ==
    [t |-> "dict",
     v |-> [k \in { pairs[i][1] : i \in 1..Len(pairs) } |->
              LET last == CHOOSE i \in 1..Len(pairs) :
                              /\ pairs[i][1] = k
                              /\ \A j \in 1..Len(pairs) : pairs[j][1] = k => j <= i
              IN  pairs[last][2]]]

JsonDigits == {"0", "1", "2", "3", "4", "5", "6", "7", "8", "9"}

\* What a step of the reader gives: no value (the text is no JSON there),
\* or a value and the text behind it.
NoValue == [ok |-> FALSE, val |-> PyNone, rest |-> <<>>]
Value(v, rest) == [ok |-> TRUE, val |-> v, rest |-> rest]

RECURSIVE SkipWhitespace(_)
SkipWhitespace(s) ==
    IF Len(s) > 0 /\ s[1] \in Whitespace THEN SkipWhitespace(Tail(s)) ELSE s

\* The string whose opening quote lies just before s.
RECURSIVE ScanString(_, _)
ScanString(s, acc) ==
    IF Len(s) = 0 \/ s[1] = NL THEN NoValue
    ELSE IF s[1] = "\"" THEN Value(PyStr(acc), Tail(s))
    ELSE ScanString(Tail(s), Append(acc, s[1]))

RECURSIVE ScanNumber(_, _)
ScanNumber(s, acc) ==
    IF Len(s) > 0 /\ s[1] \in JsonDigits
    THEN ScanNumber(Tail(s), Append(acc, s[1]))
    ELSE Value(PyInt(acc), s)

RECURSIVE ParseValue(_)
RECURSIVE ParseElements(_, _)
RECURSIVE ParseMembers(_, _)

\* The JSON value at the start of s.
ParseValue(s) ==
    LET t == SkipWhitespace(s)
    IN  IF Len(t) = 0 THEN NoValue
        ELSE IF t[1] = "\"" THEN ScanString(Tail(t), <<>>)
        ELSE IF t[1] \in JsonDigits THEN ScanNumber(t, <<>>)
        ELSE IF StartsWith(t, <<"n", "u", "l", "l">>)
        THEN Value(PyNone, SliceFrom(t, 4))
        ELSE IF t[1] = "["
        THEN LET u == SkipWhitespace(Tail(t))
             IN  IF Len(u) > 0 /\ u[1] = "]"
                 THEN Value(PyList(<<>>), Tail(u))
                 ELSE ParseElements(u, <<>>)
        ELSE IF t[1] = "{"
        THEN LET u == SkipWhitespace(Tail(t))
             IN  IF Len(u) > 0 /\ u[1] = "}"
                 THEN Value(PyDict(<<>>), Tail(u))
                 ELSE ParseMembers(u, <<>>)
        ELSE NoValue

\* The elements of an array up to its closing bracket, acc being the ones
\* read so far.
ParseElements(s, acc) ==
    LET r == ParseValue(s)
        u == SkipWhitespace(r.rest)
    IN  IF ~r.ok \/ Len(u) = 0 THEN NoValue
        ELSE IF u[1] = "," THEN ParseElements(Tail(u), Append(acc, r.val))
        ELSE IF u[1] = "]" THEN Value(PyList(Append(acc, r.val)), Tail(u))
        ELSE NoValue

\* The members of an object up to its closing brace.
ParseMembers(s, acc) ==
    LET t == SkipWhitespace(s)
        k == IF Len(t) > 0 /\ t[1] = "\"" THEN ScanString(Tail(t), <<>>) ELSE NoValue
        u == SkipWhitespace(k.rest)
        r == IF k.ok /\ Len(u) > 0 /\ u[1] = ":" THEN ParseValue(Tail(u)) ELSE NoValue
        w == SkipWhitespace(r.rest)
    IN  IF ~r.ok \/ Len(w) = 0 THEN NoValue
        ELSE IF w[1] = "," THEN ParseMembers(Tail(w), Append(acc, <<k.val.v, r.val>>))
        ELSE IF w[1] = "}" THEN Value(PyDict(Append(acc, <<k.val.v, r.val>>)), Tail(w))
        ELSE NoValue

\* json.loads(s): None for json.JSONDecodeError, which a text gives that is
\* no JSON value with nothing but whitespace around it.
json_loads(s) ==
    LET r == ParseValue(s)
    IN  IF r.ok /\ Len(SkipWhitespace(r.rest)) = 0 THEN Some(r.val) ELSE None

\* str.strip
RECURSIVE RStrip(_)
RStrip(s) ==
    IF Len(s) > 0 /\ s[Len(s)] \in Whitespace
    THEN RStrip(SubSeq(s, 1, Len(s) - 1)) ELSE s

Strip(s) == RStrip(SkipWhitespace(s))

EndsWith(s, suffix) ==
    /\ Len(suffix) <= Len(s)
    /\ SubSeq(s, Len(s) - Len(suffix) + 1, Len(s)) = suffix

\* The grave accent of a Markdown code fence; a string of this language
\* cannot hold the character itself, and the tilde stands for it.
Backtick == "~"
Fence == <<Backtick, Backtick, Backtick>>
FenceJson == Fence \o <<"j", "s", "o", "n">>

\* cleaned_text of parse_response: the text without the whitespace around
\* it and without a Markdown code fence before and behind it.
CleanedText(response_text) ==
    LET a == Strip(response_text)
        b == IF StartsWith(a, FenceJson) THEN SliceFrom(a, 7) ELSE a
        c == IF StartsWith(b, Fence) THEN SliceFrom(b, 3) ELSE b
        d == IF EndsWith(c, Fence) THEN SubSeq(c, 1, Len(c) - 3) ELSE c
    IN  Strip(d)

KeyFile == <<"f", "i", "l", "e">>
KeyLine == <<"l", "i", "n", "e">>
KeyIssue == <<"i", "s", "s", "u", "e">>
KeySuggestion == <<"s", "u", "g", "g", "e", "s", "t", "i", "o", "n">>
KeySeverity == <<"s", "e", "v", "e", "r", "i", "t", "y">>
KeyCategory == <<"c", "a", "t", "e", "g", "o", "r", "y">>
KeyWcagCriteria == <<"w", "c", "a", "g", "_", "c", "r", "i", "t", "e", "r", "i", "a">>

\* item.get(key)
DictGet(item, key) == IF key \in DOMAIN item.v THEN item.v[key] ELSE PyNone

\* Whether ReviewComment(file=item["file"], ...) ends in a KeyError.
LacksRequiredField(item) ==
    \E key \in {KeyFile, KeyIssue, KeySuggestion, KeySeverity} : key \notin DOMAIN item.v

\* ReviewComment(file=item["file"], line=item.get("line"), ...)
ReviewComment(item) ==
    [file          |-> item.v[KeyFile],
     line          |-> DictGet(item, KeyLine),
     issue         |-> item.v[KeyIssue],
     suggestion    |-> item.v[KeySuggestion],
     severity      |-> item.v[KeySeverity],
     category      |-> DictGet(item, KeyCategory),
     wcag_criteria |-> DictGet(item, KeyWcagCriteria)]

\* A mutant of the loop of parse_response: an object that lacks a required
\* field is passed over, and the comments of the other objects returned.
RECURSIVE CommentsOf_SkipFaulty(_, _)
CommentsOf_SkipFaulty(data, acc) ==
    IF Len(data) = 0 THEN [raised |-> None, returned |-> acc]
    ELSE IF data[1].t # "dict" \/ LacksRequiredField(data[1])
    THEN CommentsOf_SkipFaulty(Tail(data), acc)
    ELSE CommentsOf_SkipFaulty(Tail(data), Append(acc, ReviewComment(data[1])))

\* The loop of parse_response over the items of data, acc being the
\* comments made so far: what is raised and what is returned.
RECURSIVE CommentsOf(_, _)
CommentsOf(data, acc) ==
    IF Len(data) = 0 THEN [raised |-> None, returned |-> acc]
    ELSE IF data[1].t # "dict" THEN CommentsOf(Tail(data), acc)
    ELSE IF LacksRequiredField(data[1])
    THEN [raised |-> Some("ValueError"), returned |-> <<>>]
    ELSE CommentsOf(Tail(data), Append(acc, ReviewComment(data[1])))

\* AnthropicResponseParser.parse_response
parse_response(response_text) ==
    LET data == json_loads(CleanedText(response_text))
    IN  IF IsNone(data) THEN [raised |-> Some("ValueError"), returned |-> <<>>]
        ELSE IF data[1].t # "list"
        THEN [raised |-> Some("TypeError"), returned |-> <<>>]
        ELSE CommentsOf(data[1].v, <<>>)

(***************************************************************************)
(* The inputs the model draws.                                             *)
(***************************************************************************)
\* File names of DiffFilter's inputs: the empty path, "m" and "tm".
FileNames == { <<>>, <<"m">>, <<"t", "m">> }

\* Lines of DiffFilter's inputs: a `--- a/` header per file name, a `+++ b/`
\* header, an added line, a deleted line, an empty line and a blank context
\* line.
DiffLines ==
    { HeaderA \o f : f \in FileNames }
      \cup { HeaderB \o <<"m">>, <<"+", "n">>, <<"-", "o">>, <<>>, <<" ">> }

\* Every sequence of 1..n elements of S.
SeqsUpTo(S, n) == UNION { [1..k -> S] : k \in 1..n }

\* include_patterns arguments: none; m$ ; ^m and m$.
IncludeArgs ==
    { <<>>,
      << Pattern(FALSE, <<"m">>, TRUE) >>,
      << Pattern(TRUE, <<"m">>, FALSE), Pattern(FALSE, <<"m">>, TRUE) >> }

\* exclude_patterns arguments: none; x and ^t.
ExcludeArgs ==
    { <<>>,
      << Pattern(FALSE, <<"x">>, FALSE), Pattern(TRUE, <<"t">>, FALSE) >> }

MinArgs == (-1)..MaxChanges
MaxArgs == { None } \cup { Some(n) : n \in 0..MaxChanges }

\* Lines of AnthropicCodeReview's inputs: the two headers of a kept file,
\* the header of a file under dist/, the header of a kept file whose name
\* goes on behind the text of the pattern \.min\.js$, hunk lines and a line
\* of no diff.
ReviewLines ==
    { HeaderA \o <<"m">>, HeaderB \o <<"m">>,
      HeaderA \o <<"d","i","s","t","/">>,
      HeaderA \o <<"s","c","r","i","p","t","s",".","m","i","n",".","j","s","x">>,
      <<"+", "n">>, <<"-", "o">>, <<>>, <<"x">> }

(***************************************************************************)
(* State                                                                   *)
(***************************************************************************)
VARIABLES
    diff_filter,  \* the DiffFilter object: its four fields
    diff,         \* the text given to the last call (at first: the input)
    result,       \* the text the last call returned
    lastOp,       \* the last call
    passes,       \* the filter calls made so far
    segmented,    \* whether the last filter_diff call split its diff into files
    files,        \* what the last _parse_diff_by_files call returned
    untruncated,  \* _filter_diff's filtered_diff before its size check
    decision,     \* the last _should_include_file_diff call: None, or its
                  \* argument and what it returned
    summary,      \* what the last get_summary call returned, or None
    args,         \* the arguments of the constructor call, or None
    raised,       \* the exception the constructor raised, or None
    threads,      \* the calls in progress on the shared object, by thread
    analysis,     \* the analyze_pr call in progress, or None
    scope, \* the with statement in progress, or None
    response_text, \* the text given to parse_response, or None
    comments, \* what parse_response returned or raised, or None
    html, \* what generate_html_report returned, or None
    review, \* the review_pr call in progress, or None
    pull_request \* the files of the pull request at GitHub, or None

vars == <<diff_filter, diff, result, lastOp, passes, segmented, files,
          untruncated, decision, summary, args, raised, threads, analysis,
          scope, response_text, comments, html, review, pull_request>>

\* The with statement, the response parser, the review and the pull request
\* play no part.
reviewVars == <<scope, response_text, comments, html, review, pull_request>>

NoReview ==
    /\ scope = None
    /\ response_text = None
    /\ comments = None
    /\ html = None
    /\ review = None
    /\ pull_request = None

\* No get_summary call, no constructor call on record, no thread and no analyze_pr
\* call yet.
Idle ==
    /\ summary = None
    /\ args = None
    /\ raised = None
    /\ threads = <<>>
    /\ analysis = None
    /\ NoReview

Init ==
    /\ diff_filter \in { DiffFilter(i, e, mn, mx) :
                           i \in IncludeArgs, e \in ExcludeArgs,
                           mn \in MinArgs, mx \in MaxArgs }
    /\ diff \in { Join(<<NL>>, ls) : ls \in SeqsUpTo(DiffLines, MaxLines) }
    /\ result = <<>>
    /\ lastOp = "init"
    /\ passes = 0
    /\ segmented = FALSE
    /\ files = <<>>
    /\ untruncated = <<>>
    /\ decision = None
    /\ Idle

\* result = diff_filter.filter_diff(diff); from the second call on, the
\* diff is the result of the call before.
CallFilterDiff ==
    /\ lastOp \in {"init", "filter_diff"}
    /\ passes < MaxPasses
    /\ LET d == IF passes = 0 THEN diff ELSE result
       IN  /\ diff' = d
           /\ result' = filter_diff(diff_filter, d)
           /\ segmented' = ~ReturnsEarly(d)
    /\ passes' = passes + 1
    /\ lastOp' = "filter_diff"
    /\ UNCHANGED <<diff_filter, files, untruncated, decision>>
    /\ UNCHANGED <<summary, args, raised, threads, analysis>>
    /\ UNCHANGED reviewVars

\* files = diff_filter._parse_diff_by_files(diff)
CallParseDiffByFiles ==
    /\ lastOp = "init"
    /\ files' = parse_diff_by_files(diff)
    /\ lastOp' = "_parse_diff_by_files"
    /\ UNCHANGED <<diff_filter, diff, result, passes, segmented, untruncated, decision>>
    /\ UNCHANGED <<summary, args, raised, threads, analysis>>
    /\ UNCHANGED reviewVars

\* decision = diff_filter._should_include_file_diff(file_diff), for a file
\* diff that _parse_diff_by_files returned.
CallShouldIncludeFileDiff ==
    /\ lastOp = "_parse_diff_by_files"
    /\ \E i \in 1..Len(files) :
           decision' = Some([file_diff |-> files[i],
                             returned  |-> should_include_file_diff(diff_filter,
                                                                    files[i])])
    /\ lastOp' = "_should_include_file_diff"
    /\ UNCHANGED <<diff_filter, diff, result, passes, segmented, files, untruncated>>
    /\ UNCHANGED <<summary, args, raised, threads, analysis>>
    /\ UNCHANGED reviewVars

\* summary = diff_filter.get_summary(diff), of the input or of what the
\* filter call before returned.
CallGetSummary ==
    /\ lastOp \in {"init", "filter_diff"}
    /\ diff' = IF passes = 0 THEN diff ELSE result
    /\ summary' = Some(get_summary(diff_filter, diff'))
    /\ lastOp' = "get_summary"
    /\ UNCHANGED <<diff_filter, result, passes, segmented, files, untruncated, decision>>
    /\ UNCHANGED <<args, raised, threads, analysis>>
    /\ UNCHANGED reviewVars

Next ==
    \/ CallFilterDiff
    \/ CallParseDiffByFiles
    \/ CallShouldIncludeFileDiff
    \/ CallGetSummary

Spec == Init /\ [][Next]_vars

\* The review path: AnthropicCodeReview has no DiffFilter of its own; the
\* object here is the one the built-in list would configure.
InitReview ==
    /\ diff_filter = DiffFilter(<<>>, EXCLUDE_PATTERNS, 0, None)
    /\ diff \in { Join(<<NL>>, ls) : ls \in SeqsUpTo(ReviewLines, MaxLines) }
    /\ result = <<>>
    /\ lastOp = "init"
    /\ passes = 0
    /\ segmented = FALSE
    /\ files = <<>>
    /\ untruncated = <<>>
    /\ decision = None
    /\ Idle

\* result = reviewer._filter_diff(diff)
CallReviewFilterDiff ==
    /\ lastOp \in {"init", "_filter_diff"}
    /\ passes < MaxPasses
    /\ LET d == IF passes = 0 THEN diff ELSE result
       IN  /\ diff' = d
           /\ untruncated' = ReviewJoined(d)
           /\ result' = review_filter_diff(d)
    /\ passes' = passes + 1
    /\ lastOp' = "_filter_diff"
    /\ UNCHANGED <<diff_filter, segmented, files, decision>>
    /\ UNCHANGED <<summary, args, raised, threads, analysis>>
    /\ UNCHANGED reviewVars

NextReview == CallReviewFilterDiff

SpecReview == InitReview /\ [][NextReview]_vars

(***************************************************************************)
(* Segments and patterns: diffs whose hunks hold lines that begin with     *)
(* `+++` or `---` without being headers, files named m, tm and mt, and the *)
(* pattern m bare, under ^ and under $.                                    *)
(***************************************************************************)
\* An added line "++n" and a deleted line "--o", as a unified diff writes
\* them, beside the lines of a file's two headers and a plain added line.
SegmentLines ==
    { HeaderA \o <<"m">>, HeaderA \o <<"t", "m">>, HeaderA \o <<"m", "t">>,
      HeaderB \o <<"m">>, <<"+", "+", "+", "n">>, <<"-", "-", "-", "o">>,
      <<"+", "n">> }

\* Pattern lists: none, m, ^m, m$.
PatternArgs ==
    { <<>>,
      << Pattern(FALSE, <<"m">>, FALSE) >>,
      << Pattern(TRUE, <<"m">>, FALSE) >>,
      << Pattern(FALSE, <<"m">>, TRUE) >> }

InitSegments ==
    /\ diff_filter \in { DiffFilter(i, e, 0, None) :
                           i \in PatternArgs, e \in PatternArgs }
    /\ diff \in { Join(<<NL>>, ls) : ls \in SeqsUpTo(SegmentLines, MaxLines) }
    /\ result = <<>>
    /\ lastOp = "init"
    /\ passes = 0
    /\ segmented = FALSE
    /\ files = <<>>
    /\ untruncated = <<>>
    /\ decision = None
    /\ Idle

NextSegments == CallParseDiffByFiles \/ CallShouldIncludeFileDiff

SpecSegments == InitSegments /\ [][NextSegments]_vars

(***************************************************************************)
(* Construction: the constructor runs on pattern texts, some of which do   *)
(* not compile, and filter_diff runs on the object if there is one.        *)
(***************************************************************************)
\* Pattern list arguments: none, m, ^m and m$, and lists with a text that
\* re.compile rejects in first or in second place.
RawPatternArgs ==
    { <<>>,
      << <<"m">> >>,
      << <<"^", "m">>, <<"m", "$">> >>,
      << <<"(">> >>,
      << <<"m">>, <<"m", "(">> >>,
      << <<"[">>, <<"m">> >> }

ConstructionLines == { HeaderA \o <<"m">>, HeaderA \o <<"t", "m">>, <<"+", "n">> }

InitConstruction ==
    /\ args \in [include_patterns : RawPatternArgs,
                  exclude_patterns : RawPatternArgs,
                  min_line_changes : MinArgs,
                  max_line_changes : MaxArgs]
    /\ diff \in { Join(<<NL>>, ls) : ls \in SeqsUpTo(ConstructionLines, MaxLines) }
    /\ diff_filter = None
    /\ result = <<>>
    /\ lastOp = "new"
    /\ passes = 0
    /\ segmented = FALSE
    /\ files = <<>>
    /\ untruncated = <<>>
    /\ decision = None
    /\ summary = None
    /\ raised = None
    /\ threads = <<>>
    /\ analysis = None
    /\ NoReview

\* diff_filter = DiffFilter(**args), or the exception of it.
CallInit ==
    /\ lastOp = "new"
    /\ LET made == DiffFilter_init(args.include_patterns, args.exclude_patterns,
                                   args.min_line_changes, args.max_line_changes)
       IN  /\ raised' = made.raised
           /\ diff_filter' = IF IsNone(made.raised) THEN made.self[1] ELSE None
           /\ lastOp' = IF IsNone(made.raised) THEN "init" ELSE "__init__ raised"
    /\ UNCHANGED <<diff, result, passes, segmented, files, untruncated, decision>>
    /\ UNCHANGED <<summary, args, threads, analysis>>
    /\ UNCHANGED reviewVars

NextConstruction == CallInit \/ CallFilterDiff

SpecConstruction == InitConstruction /\ [][NextConstruction]_vars

(***************************************************************************)
(* Threads: filter_diff and get_summary calls that run at the same time on *)
(* one DiffFilter, a step of one thread being one turn of a loop or one    *)
(* statement outside the loops.                                            *)
(***************************************************************************)
MaxThreadLines == 2

Threads == {1, 2}

ThreadOps == {"filter_diff", "get_summary"}

ThreadLineSet == { HeaderA \o <<"m">>, HeaderA \o <<"t", "m">>, <<"+", "n">> }

\* The diff arguments of the threads' calls: the empty text, and texts of
\* up to MaxThreadLines lines.
ThreadDiffs ==
    { <<>> } \cup { Join(<<NL>>, ls) : ls \in SeqsUpTo(ThreadLineSet, MaxThreadLines) }

\* The objects the threads share: one that filters nothing, one with a
\* pattern in either list and an upper limit.
ThreadArgs ==
    { [include_patterns |-> <<>>, exclude_patterns |-> <<>>,
       min_line_changes |-> 0, max_line_changes |-> None],
      [include_patterns |-> << <<"m", "$">> >>, exclude_patterns |-> << <<"^", "t">> >>,
       min_line_changes |-> 0, max_line_changes |-> Some(MaxChanges)] }

\* The frame of a call that has not run yet: its arguments, its position,
\* its locals, what it returned and what it raised.
Frame(op, d) ==
    [op |-> op, diff |-> d, pc |-> "call",
     lines |-> <<>>, pos |-> 0, st |-> NoLocals,
     file_diffs |-> <<>>, k |-> 0, filtered_diffs |-> <<>>,
     ret |-> None, exc |-> None]

\* A mutant of _parse_diff_by_files: files, current_file and
\* current_content kept on the object, the same ones for every call.
LocalsOf_Shared(t) == CHOOSE u \in Threads : \A v \in Threads : u <= v

\* The frame that holds the locals files, current_file and current_content
\* of thread t's _parse_diff_by_files call: its own.
LocalsOf(t) == t

\* threads with thread t's frame set to `own` and the parse locals of its
\* call set to `locals`.
SetFrames(t, own, locals) ==
    [u \in Threads |->
        LET f == IF u = t THEN own ELSE threads[u]
        IN  IF u = LocalsOf(t) THEN [f EXCEPT !.st = locals] ELSE f]

InitThreads ==
    /\ args \in ThreadArgs
    /\ diff_filter = DiffFilter_init(args.include_patterns, args.exclude_patterns,
                                     args.min_line_changes, args.max_line_changes).self[1]
    /\ threads \in [Threads ->
                       { Frame(op, d) : op \in ThreadOps, d \in ThreadDiffs }]
    /\ diff = <<>>
    /\ result = <<>>
    /\ lastOp = "init"
    /\ passes = 0
    /\ segmented = FALSE
    /\ files = <<>>
    /\ untruncated = <<>>
    /\ decision = None
    /\ summary = None
    /\ raised = None
    /\ analysis = None
    /\ NoReview

\* A step of a thread leaves the object and everything outside the threads
\* alone: no statement of the two methods assigns to self.
ObjectUntouched ==
    /\ UNCHANGED <<diff_filter, diff, result, lastOp, passes, segmented, files,
                   untruncated, decision, summary, args, raised, analysis>>
    /\ UNCHANGED reviewVars

\* Thread t enters its call: filter_diff returns "" for a blank diff, and
\* _parse_diff_by_files starts otherwise.
ThreadCall(t) ==
    LET f == threads[t]
    IN  /\ f.pc = "call"
        /\ threads' =
             IF f.op = "filter_diff" /\ ReturnsEarly(f.diff)
             THEN [threads EXCEPT ![t] = [f EXCEPT !.pc = "done", !.ret = Some(<<>>)]]
             ELSE SetFrames(t, [f EXCEPT !.pc = "parse", !.lines = Split(f.diff),
                                         !.pos = 1],
                            NoLocals)
        /\ ObjectUntouched

\* One turn of the loop of _parse_diff_by_files in thread t.
ThreadParseLine(t) ==
    LET f == threads[t]
    IN  /\ f.pc = "parse"
        /\ f.pos <= Len(f.lines)
        /\ threads' = SetFrames(t, [f EXCEPT !.pos = @ + 1],
                                ParseLine(threads[LocalsOf(t)].st, f.lines[f.pos]))
        /\ ObjectUntouched

\* The loop of _parse_diff_by_files is over in thread t: the last file is
\* added and the list returned to filter_diff or get_summary.
ThreadParseEnd(t) ==
    LET f == threads[t]
    IN  /\ f.pc = "parse"
        /\ f.pos > Len(f.lines)
        /\ threads' =
             [threads EXCEPT ![t] =
                 [f EXCEPT !.file_diffs = ParseFinish(threads[LocalsOf(t)].st),
                           !.k = 1,
                           !.pc = IF f.op = "filter_diff" THEN "filter" ELSE "sum"]]
        /\ ObjectUntouched

\* One turn of the loop of filter_diff in thread t.
ThreadFilterFile(t) ==
    LET f  == threads[t]
        fd == f.file_diffs[f.k]
    IN  /\ f.pc = "filter"
        /\ f.k <= Len(f.file_diffs)
        /\ threads' =
             [threads EXCEPT ![t] =
                 IF ~IsNone(should_include_file_diff_raises(diff_filter, fd))
                 THEN [f EXCEPT !.pc = "raised",
                                !.exc = should_include_file_diff_raises(diff_filter, fd)]
                 ELSE [f EXCEPT !.k = @ + 1,
                                !.filtered_diffs =
                                    IF should_include_file_diff(diff_filter, fd)
                                    THEN Append(@, fd.content) ELSE @]]
        /\ ObjectUntouched

\* The return statement of filter_diff or get_summary in thread t.
ThreadReturn(t) ==
    LET f == threads[t]
    IN  /\ \/ f.pc = "filter" /\ f.k > Len(f.file_diffs)
           \/ f.pc = "sum"
        /\ threads' =
             [threads EXCEPT ![t] =
                 [f EXCEPT !.pc = "done",
                           !.ret = IF f.op = "filter_diff"
                                   THEN Some(Join(<<NL, NL>>, f.filtered_diffs))
                                   ELSE Some(Summarize(f.file_diffs))]]
        /\ ObjectUntouched

ThreadStep(t) ==
    \/ ThreadCall(t)
    \/ ThreadParseLine(t)
    \/ ThreadParseEnd(t)
    \/ ThreadFilterFile(t)
    \/ ThreadReturn(t)

NextThreads == \E t \in Threads : ThreadStep(t)

\* The interpreter goes on running a thread as long as there is one that
\* has not finished.
SpecThreads == InitThreads /\ [][NextThreads]_vars /\ WF_vars(NextThreads)

(***************************************************************************)
(* PRDiffAnalyzer.analyze_pr: one step per call of a collaborator, with    *)
(* the statements that follow it up to the next call.  A collaborator that *)
(* talks to GitHub or to the model API returns or raises.                  *)
(***************************************************************************)
\* str(n) for n >= 0: its decimal digits.
RECURSIVE Str(_)
Str(n) ==
    LET digits == <<"0", "1", "2", "3", "4", "5", "6", "7", "8", "9">>
    IN  IF n < 10 THEN <<digits[n + 1]>>
        ELSE Str(n \div 10) \o <<digits[(n % 10) + 1]>>

\* pr_number arguments: one that fetch_pr_diff rejects and two it accepts.
PrNumbers == {0, 7, 12}

\* analysis_type arguments: a valid one and one that analyze_diff rejects.
AnalysisTypes == {"review", "bogus"}

valid_types == {"review", "summary", "security", "accessibility"}

AnalysisLines == { HeaderA \o <<"m">>, HeaderA \o <<"t", "m">>, <<"+", "n">> }

\* What fetch_pr_diff may return: the empty text of a pull request without
\* patches, and texts of up to MaxLines lines.
FetchedDiffs ==
    { <<>> } \cup { Join(<<NL>>, ls) : ls \in SeqsUpTo(AnalysisLines, MaxLines) }

\* What get_pr_info may return: a title, and a description that is None, ""
\* or a text.
PrInfos ==
    { [title |-> <<"T">>, description |-> d] : d \in {None, Some(<<>>), Some(<<"D">>)} }

\* A mutant of analyze_pr: the test of the filtered diff left out.
NothingMatched_Never(filtered_diff) == FALSE

\* `if not filtered_diff.strip()` of analyze_pr.
NothingMatched(filtered_diff) == StripIsEmpty(filtered_diff)

\* A mutant of analyze_pr: the PR information fetched whatever
\* include_pr_info says.
FetchesPrInfo_Always(include_pr_info) == TRUE

\* `if include_pr_info` of analyze_pr.
FetchesPrInfo(include_pr_info) == include_pr_info

\* The context analyze_pr builds from pr_info.
ContextOf(pr_info) ==
    <<"P", "R", " ", "T", "i", "t", "l", "e", ":", " ">> \o pr_info.title \o <<NL>>
      \o (IF Truthy(pr_info.description)
          THEN <<"D", "e", "s", "c", "r", "i", "p", "t", "i", "o", "n", ":", " ">> \o pr_info.description[1]
          ELSE <<>>)

\* The analyze_pr call with `entry` added to its record of calls.
Calling(a, entry) == [a EXCEPT !.calls = Append(@, entry)]

\* The analyze_pr call ended by the exception exc.
Raising(a, exc) == [a EXCEPT !.pc = "raised", !.exc = Some(exc)]

InitAnalysis ==
    /\ diff_filter \in { DiffFilter(i, e, 0, None) :
                           i \in IncludeArgs, e \in ExcludeArgs }
    /\ analysis \in { [pr_number |-> n, analysis_type |-> ty, include_pr_info |-> b,
                        pc |-> "fetch", calls |-> <<>>, filtered_diff |-> <<>>,
                        summary |-> None, context |-> None,
                        ret |-> None, exc |-> None] :
                         n \in PrNumbers, ty \in AnalysisTypes, b \in BOOLEAN }
    /\ diff = <<>>
    /\ result = <<>>
    /\ lastOp = "init"
    /\ passes = 0
    /\ segmented = FALSE
    /\ files = <<>>
    /\ untruncated = <<>>
    /\ decision = None
    /\ summary = None
    /\ args = None
    /\ raised = None
    /\ threads = <<>>
    /\ NoReview

\* analyze_pr changes nothing but its own locals.
AnalysisOnly ==
    /\ UNCHANGED <<diff_filter, diff, result, lastOp, passes, segmented, files,
                   untruncated, decision, summary, args, raised, threads>>
    /\ UNCHANGED reviewVars

\* raw_diff = self.github_fetcher.fetch_pr_diff(pr_number), then
\* filtered_diff = self.diff_filter.filter_diff(raw_diff) and the test of
\* the filtered diff.
AnalyzeFetchAndFilter ==
    LET a == Calling(analysis, [callee |-> "fetch_pr_diff",
                                pr_number |-> analysis.pr_number])
    IN  /\ analysis.pc = "fetch"
        /\ \/ /\ analysis.pr_number <= 0
              /\ analysis' = Raising(a, "ValueError")
           \/ /\ analysis.pr_number > 0
              /\ analysis' = Raising(a, "Exception")
           \/ /\ analysis.pr_number > 0
              /\ \E raw_diff \in FetchedDiffs :
                    LET filtered_diff == filter_diff(diff_filter, raw_diff)
                        b == Calling(a, [callee |-> "filter_diff", diff |-> raw_diff])
                    IN  analysis' =
                          IF NothingMatched(filtered_diff)
                          THEN [b EXCEPT
                                  !.filtered_diff = filtered_diff,
                                  !.pc = "done",
                                  !.ret = Some([error |-> "No changes matched the filter criteria",
                                                pr_number |-> Str(analysis.pr_number)])]
                          ELSE [b EXCEPT !.filtered_diff = filtered_diff,
                                         !.pc = "summary"]
        /\ AnalysisOnly

\* summary = self.diff_filter.get_summary(filtered_diff); context = None
AnalyzeSummary ==
    /\ analysis.pc = "summary"
    /\ analysis' =
         [Calling(analysis, [callee |-> "get_summary", diff |-> analysis.filtered_diff])
             EXCEPT !.summary = Some(get_summary(diff_filter, analysis.filtered_diff)),
                    !.context = None,
                    !.pc = IF FetchesPrInfo(analysis.include_pr_info)
                           THEN "pr_info" ELSE "claude"]
    /\ AnalysisOnly

\* pr_info = self.github_fetcher.get_pr_info(pr_number) and the context
\* built from it.
AnalyzePrInfo ==
    LET a == Calling(analysis, [callee |-> "get_pr_info",
                                pr_number |-> analysis.pr_number])
    IN  /\ analysis.pc = "pr_info"
        /\ \/ analysis' = Raising(a, "Exception")
           \/ \E pr_info \in PrInfos :
                 analysis' = [a EXCEPT !.context = Some(ContextOf(pr_info)),
                                       !.pc = "claude"]
        /\ AnalysisOnly

\* analysis = self.claude_client.analyze_diff(diff=filtered_diff,
\* context=context, analysis_type=analysis_type) and the return of
\* analyze_pr.
AnalyzeClaude ==
    LET a == Calling(analysis, [callee |-> "analyze_diff",
                                diff |-> analysis.filtered_diff,
                                context |-> analysis.context,
                                analysis_type |-> analysis.analysis_type])
    IN  /\ analysis.pc = "claude"
        /\ \/ /\ StripIsEmpty(analysis.filtered_diff)
              /\ analysis' = Raising(a, "ValueError")
           \/ /\ ~StripIsEmpty(analysis.filtered_diff)
              /\ analysis.analysis_type \notin valid_types
              /\ analysis' = Raising(a, "ValueError")
           \/ /\ ~StripIsEmpty(analysis.filtered_diff)
              /\ analysis.analysis_type \in valid_types
              /\ \/ analysis' = Raising(a, "Exception")
                 \/ analysis' =
                      [a EXCEPT !.pc = "done",
                                !.ret = Some([pr_number     |-> Str(analysis.pr_number),
                                              analysis_type |-> analysis.analysis_type,
                                              summary       |-> analysis.summary[1],
                                              analysis      |-> "analysis"])]
        /\ AnalysisOnly

NextAnalysis ==
    \/ AnalyzeFetchAndFilter
    \/ AnalyzeSummary
    \/ AnalyzePrInfo
    \/ AnalyzeClaude

SpecAnalysis == InitAnalysis /\ [][NextAnalysis]_vars

(***************************************************************************)
(* The with statement on a PRDiffAnalyzer, an AnthropicCodeReview or a     *)
(* GitHubDiffFetcher: the statements of the block run, the block ends or   *)
(* raises, and __exit__ runs.  The GitHub client is the number of close    *)
(* calls it has had.                                                       *)
(***************************************************************************)
MaxBodySteps == 2

ContextManagers == {"PRDiffAnalyzer", "AnthropicCodeReview", "GitHubDiffFetcher"}

\* What a with block may raise: nothing, or one of the exceptions that the
\* methods of the three classes raise.
BodyOutcomes == {None, Some("ValueError"), Some("Exception")}

\* GitHubDiffFetcher.close: self.github_client.close()
fetcher_close(github_client) == github_client + 1

\* close of the three classes: PRDiffAnalyzer and AnthropicCodeReview hand
\* on to their github_fetcher.
close(cls, github_client) ==
    IF cls = "GitHubDiffFetcher"
    THEN fetcher_close(github_client)
    ELSE fetcher_close(github_client)

\* A mutant of __exit__: close only when the block raised nothing.
exit_OnlyOnSuccess(cls, github_client, exc_val) ==
    IF IsNone(exc_val) THEN close(cls, github_client) ELSE github_client

\* __exit__(exc_type, exc_val, exc_tb) of the three classes: self.close(),
\* whatever the block raised.
exit(cls, github_client, exc_val) == close(cls, github_client)

InitWith ==
    /\ scope \in { [cls |-> c, pc |-> "body", steps |-> 0, github_client |-> 0,
                     at_exit |-> 0, exc |-> None] : c \in ContextManagers }
    /\ diff_filter = DiffFilter(<<>>, <<>>, 0, None)
    /\ diff = <<>>
    /\ result = <<>>
    /\ lastOp = "init"
    /\ passes = 0
    /\ segmented = FALSE
    /\ files = <<>>
    /\ untruncated = <<>>
    /\ decision = None
    /\ summary = None
    /\ args = None
    /\ raised = None
    /\ threads = <<>>
    /\ analysis = None
    /\ response_text = None
    /\ comments = None
    /\ html = None
    /\ review = None
    /\ pull_request = None

ScopeOnly ==
    UNCHANGED <<diff_filter, diff, result, lastOp, passes, segmented, files,
                untruncated, decision, summary, args, raised, threads, analysis,
                response_text, comments, html, review, pull_request>>

\* A statement of the block that returns: a method call, or a call of
\* close() by the block itself.
WithBodyStep ==
    /\ scope.pc = "body"
    /\ scope.steps < MaxBodySteps
    /\ \/ scope' = [scope EXCEPT !.steps = @ + 1]
       \/ scope' = [scope EXCEPT !.steps = @ + 1,
                                 !.github_client = close(scope.cls, @)]
    /\ ScopeOnly

\* The block ends, at its last statement or by an exception.
WithBodyEnd ==
    /\ scope.pc = "body"
    /\ \E outcome \in BodyOutcomes :
           scope' = [scope EXCEPT !.pc = "exit", !.exc = outcome,
                                  !.at_exit = scope.github_client]
    /\ ScopeOnly

\* __exit__ runs and returns None, so that the exception of the block, if
\* any, goes on to the caller.
WithExit ==
    /\ scope.pc = "exit"
    /\ scope' = [scope EXCEPT !.pc = "left",
                              !.github_client = exit(scope.cls, @, scope.exc)]
    /\ ScopeOnly

NextWith == WithBodyStep \/ WithBodyEnd \/ WithExit

SpecWith == InitWith /\ [][NextWith]_vars

(***************************************************************************)
(* AnthropicResponseParser.generate_html_report.  The report is the        *)
(* sequence of its pieces: a piece of the template is one string of        *)
(* several characters, and what comes from an argument is there character  *)
(* by character, a character reference that escape() writes being one      *)
(* string.                                                                 *)
(***************************************************************************)
\* html.escape(s) with quote=True, s a sequence of characters.
RECURSIVE escape(_)
escape(s) ==
    IF Len(s) = 0 THEN <<>>
    ELSE <<CASE s[1] = "&" -> "&amp;"
             [] s[1] = "<" -> "&lt;"
             [] s[1] = ">" -> "&gt;"
             [] s[1] = "\"" -> "&quot;"
             [] s[1] = "'" -> "&#x27;"
             [] OTHER -> s[1]>> \o escape(Tail(s))

\* str.lower, of the capital letters the model's texts hold.
RECURSIVE lower(_)
lower(s) ==
    IF Len(s) = 0 THEN <<>>
    ELSE <<CASE s[1] = "H" -> "h" [] s[1] = "L" -> "l" [] OTHER -> s[1]>>
             \o lower(Tail(s))

\* The keys of severity_colors and severity_counts, in their order.
Severities ==
    << <<"c", "r", "i", "t", "i", "c", "a", "l">>, <<"h", "i", "g", "h">>,
       <<"m", "e", "d", "i", "u", "m">>, <<"l", "o", "w">> >>

\* severity_colors.get(severity, "#6c757d")
severity_color(severity) ==
    IF severity = Severities[1] THEN "#dc3545"
    ELSE IF severity = Severities[2] THEN "#fd7e14"
    ELSE IF severity = Severities[3] THEN "#ffc107"
    ELSE IF severity = Severities[4] THEN "#17a2b8"
    ELSE "#6c757d"

\* bool(value) of Python.
PyTruthy(value) ==
    CASE value.t = "NoneType" -> FALSE
      [] value.t = "int" -> \E i \in 1..Len(value.v) : value.v[i] # "0"
      [] value.t = "dict" -> DOMAIN value.v # {}
      [] OTHER -> Len(value.v) > 0

\* review_type.replace('_', ' ').title()
ReviewTitle(review_type) ==
    IF review_type = "code_review" THEN "Code Review"
    ELSE IF review_type = "accessibility" THEN "Accessibility"
    ELSE "Review"

\* The cards of the summary: for each severity its count among the
\* comments.
SummaryCards(comment_list) ==
    LET Card(i) ==
            <<"<div class='summary-card'><div class='label'>",
              CASE i = 1 -> "CRITICAL" [] i = 2 -> "HIGH" [] i = 3 -> "MEDIUM"
                [] OTHER -> "LOW",
              "</div><div class='count' style='color: ",
              severity_color(Severities[i]), ";'>">>
              \o Str(Cardinality({ j \in 1..Len(comment_list) :
                                   comment_list[j].severity = PyStr(Severities[i]) }))
              \o <<"</div></div>">>
    IN  <<"<div class='summary'>">> \o Card(1) \o Card(2) \o Card(3) \o Card(4)
          \o <<"</div>">>

\* The pieces the loop of generate_html_report appends for one comment.
CommentPart(comment) ==
    <<"<div class='comment ">> \o lower(comment.severity.v) \o <<"'>",
      "<div class='comment-header'>", "<div class='file-info'>">>
      \o escape(comment.file.v) \o <<" - ">>
      \o (IF PyTruthy(comment.line) THEN <<"Line ">> \o comment.line.v
          ELSE <<"File-level">>)
      \o <<"</div>", "<span class='severity-badge' style='background: ",
           severity_color(comment.severity.v), ";'>">>
      \o comment.severity.v \o <<"</span>", "</div>", "<div class='issue'>">>
      \o escape(comment.issue.v)
      \o <<"</div>", "<div class='suggestion'><strong>Suggestion:</strong> ">>
      \o escape(comment.suggestion.v) \o <<"</div>">>
      \o (IF PyTruthy(comment.wcag_criteria) \/ PyTruthy(comment.category)
          THEN <<"<div>">>
                 \o (IF PyTruthy(comment.wcag_criteria)
                     THEN <<"<span class='meta-tag'>WCAG ">>
                            \o escape(comment.wcag_criteria.v) \o <<"</span>">>
                     ELSE <<>>)
                 \o (IF PyTruthy(comment.category)
                     THEN <<"<span class='meta-tag'>">>
                            \o escape(comment.category.v) \o <<"</span>">>
                     ELSE <<>>)
                 \o <<"</div>">>
          ELSE <<>>)
      \o <<"</div>">>

RECURSIVE CommentParts(_)
CommentParts(comment_list) ==
    IF Len(comment_list) = 0 THEN <<>>
    ELSE CommentPart(comment_list[1]) \o CommentParts(Tail(comment_list))

\* The error generate_html_report ends in, None if in none: a severity
\* that is a list or a dict is no key of severity_counts (TypeError), and
\* str.lower and escape are there for strings only (AttributeError).
ReportError(comment_list) ==
    IF \E i \in 1..Len(comment_list) : comment_list[i].severity.t \in {"list", "dict"}
    THEN Some("TypeError")
    ELSE IF \E i \in 1..Len(comment_list) :
               \/ comment_list[i].severity.t # "str"
               \/ comment_list[i].file.t # "str"
               \/ comment_list[i].issue.t # "str"
               \/ comment_list[i].suggestion.t # "str"
               \/ /\ PyTruthy(comment_list[i].wcag_criteria)
                  /\ comment_list[i].wcag_criteria.t # "str"
               \/ /\ PyTruthy(comment_list[i].category)
                  /\ comment_list[i].category.t # "str"
    THEN Some("AttributeError")
    ELSE None

\* AnthropicResponseParser.generate_html_report; the time of day in the
\* header is one piece.
generate_html_report(comment_list, pr_number, review_type) ==
    IF ~IsNone(ReportError(comment_list))
    THEN [raised |-> ReportError(comment_list), returned |-> <<>>]
    ELSE [raised |-> None,
          returned |->
            <<"<!DOCTYPE html><html lang='en'><head><title>PR #">>
              \o Str(pr_number) \o <<" - ", ReviewTitle(review_type),
                   " Report</title><style>...</style></head><body>",
                   "<div class='header'><h1>PR #">>
              \o Str(pr_number) \o <<" - ", ReviewTitle(review_type),
                   " Report</h1><div class='meta'>Generated: ", "now", "</div></div>">>
              \o SummaryCards(comment_list)
              \o (IF Len(comment_list) = 0
                  THEN <<"<div class='no-issues'><h2>No Issues Found</h2></div>">>
                  ELSE CommentParts(comment_list))
              \o <<"</body></html>">>]

(***************************************************************************)
(* AnthropicCodeReview.review_pr: one call, from the diff the fetcher      *)
(* gives and the text Claude answers to what the call returns or raises.   *)
(***************************************************************************)
\* The methods of AnthropicPromptService.
PromptServiceMethods == {"build_accessibility_prompt", "build_code_review_prompt"}

\* The names module anthropic_code_review has bound when it runs:
\* TYPE_CHECKING is False then, and the imports under it are not made.
ModuleNames ==
    {"annotations", "logging", "re", "TYPE_CHECKING", "ClassVar",
     "AnthropicClientFactory", "MockAnthropicClient", "AnthropicPromptService",
     "AnthropicResponseParser", "ReviewComment", "GitHubDiffFetcher", "logger",
     "AnthropicCodeReview"}

\* The parameters of generate_html_report; none has a default value.
ReportParameters == <<"comments", "pr_number", "review_type">>

\* self.parser.generate_html_report(comments, pr_number), the call review_pr
\* makes: a call with fewer arguments than parameters is a TypeError.
ReportOfReview(comment_list, pr_number) ==
    IF Len(<<comment_list, pr_number>>) < Len(ReportParameters)
    THEN [raised |-> Some("TypeError"), returned |-> <<>>]
    ELSE generate_html_report(comment_list, pr_number, "accessibility")

\* What a call of review_pr ended with: the filtered diff it had, the step
\* it ended in, what it raised and the pair it returned.
Ended(filtered_diff, step, exception, pair) ==
    [filtered_diff |-> filtered_diff, ended_in |-> step,
     raised |-> exception, returned |-> pair]

\* The end of review_pr, from the comments parse_response gave: the report
\* and the return.
ReportAndReturn(filtered_diff, pr_number, comment_list) ==
    LET html_report == ReportOfReview(comment_list, pr_number)
    IN  IF ~IsNone(html_report.raised)
        THEN Ended(filtered_diff, "generate_html_report", html_report.raised, None)
        ELSE Ended(filtered_diff, "return", None,
                   Some(<<comment_list, html_report.returned>>))

\* review_pr from the answer of Claude on: the answer parsed, then the
\* report.
ParseAndReport(filtered_diff, pr_number, parsed) ==
    IF ~IsNone(parsed.raised)
    THEN Ended(filtered_diff, "parse_response", parsed.raised, None)
    ELSE ReportAndReturn(filtered_diff, pr_number, parsed.returned)

\* AnthropicCodeReview.review_pr, where raw_diff is what fetch_pr_diff
\* returns and claude_text what _call_claude returns.
review_pr(pr_number, raw_diff, claude_text) ==
    LET filtered_diff == review_filter_diff(raw_diff)
    IN  IF StripIsEmpty(filtered_diff)
        THEN ReportAndReturn(filtered_diff, pr_number, <<>>)
        ELSE IF "build_prompt" \notin PromptServiceMethods
        THEN Ended(filtered_diff, "build_prompt", Some("AttributeError"), None)
        ELSE IF "Path" \notin ModuleNames
        THEN Ended(filtered_diff, "_save_debug_files", Some("NameError"), None)
        ELSE ParseAndReport(filtered_diff, pr_number, parse_response(claude_text))

(***************************************************************************)
(* GitHubDiffFetcher._get_pr_diff.  A file of a pull request has a         *)
(* filename and a patch, None for a binary file.                           *)
(***************************************************************************)
\* The parts the loop of _get_pr_diff appends for the files of file_list.
RECURSIVE DiffParts(_)
DiffParts(file_list) ==
    IF Len(file_list) = 0 THEN <<>>
    ELSE (IF Truthy(file_list[1].patch)
          THEN << HeaderA \o file_list[1].filename,
                  HeaderB \o file_list[1].filename,
                  file_list[1].patch[1],
                  <<>> >>
          ELSE <<>>) \o DiffParts(Tail(file_list))

\* GitHubDiffFetcher._get_pr_diff, file_list being pull_request.get_files()
get_pr_diff(file_list) == Join(<<NL>>, DiffParts(file_list))

(***************************************************************************)
(* Responses: texts with and without a code fence around a JSON array of   *)
(* up to MaxItems items, around another JSON value, or around no JSON.     *)
(***************************************************************************)
MaxItems == 2

\* An object with the four required fields, one with all fields but
\* wcag_criteria in another order, one without suggestion, and a number.
ItemFull ==
    <<"{", "\"", "f", "i", "l", "e", "\"", ":", "\"", "a", "\"", ",",
      "\"", "i", "s", "s", "u", "e", "\"", ":", "\"", "b", "\"", ",",
      "\"", "s", "u", "g", "g", "e", "s", "t", "i", "o", "n", "\"",
      ":", "\"", "c", "\"", ",", "\"", "s", "e", "v", "e", "r", "i",
      "t", "y", "\"", ":", "\"", "l", "o", "w", "\"", "}">>
ItemRich ==
    <<"{", "\"", "s", "e", "v", "e", "r", "i", "t", "y", "\"", ":", "\"",
      "h", "i", "g", "h", "\"", ",", "\"", "l", "i", "n", "e", "\"",
      ":", "5", ",", "\"", "f", "i", "l", "e", "\"", ":", "\"", "z",
      "\"", ",", "\"", "c", "a", "t", "e", "g", "o", "r", "y", "\"",
      ":", "\"", "k", "\"", ",", "\"", "s", "u", "g", "g", "e", "s",
      "t", "i", "o", "n", "\"", ":", "\"", "c", "\"", ",", "\"", "i",
      "s", "s", "u", "e", "\"", ":", "\"", "b", "\"", "}">>
ItemNoSuggestion ==
    <<"{", "\"", "f", "i", "l", "e", "\"", ":", "\"", "a", "\"", ",",
      "\"", "i", "s", "s", "u", "e", "\"", ":", "\"", "b", "\"", ",",
      "\"", "s", "e", "v", "e", "r", "i", "t", "y", "\"", ":", "\"",
      "l", "o", "w", "\"", "}">>
ResponseItems == { ItemFull, ItemRich, ItemNoSuggestion, <<"5">> }

\* The items of an array with commas between them.
RECURSIVE CommaJoin(_)
CommaJoin(items) ==
    IF Len(items) = 0 THEN <<>>
    ELSE IF Len(items) = 1 THEN items[1]
    ELSE items[1] \o <<",">> \o CommaJoin(Tail(items))

ResponseBodies ==
    { <<"[">> \o CommaJoin(items) \o <<"]">> :
        items \in {<<>>} \cup SeqsUpTo(ResponseItems, MaxItems) }
      \cup { <<>>, <<"x">>, <<"[">>, <<"[", "5", ",", "]">>,
             <<"{", "}">>, ItemFull, <<"n", "u", "l", "l">>, <<"5">>,
             <<"\"", "s", "\"">> }

ResponsePrefixes == { <<>>, <<" ">>, Fence, FenceJson \o <<NL>> }
ResponseSuffixes == { <<>>, <<NL>>, <<NL>> \o Fence }

ResponseTexts ==
    { p \o b \o s : p \in ResponsePrefixes, b \in ResponseBodies, s \in ResponseSuffixes }

InitParser ==
    /\ response_text \in { Some(t) : t \in ResponseTexts }
    /\ comments = None
    /\ html = None
    /\ scope = None
    /\ review = None
    /\ pull_request = None
    /\ diff_filter = DiffFilter(<<>>, <<>>, 0, None)
    /\ diff = <<>>
    /\ result = <<>>
    /\ lastOp = "init"
    /\ passes = 0
    /\ segmented = FALSE
    /\ files = <<>>
    /\ untruncated = <<>>
    /\ decision = None
    /\ summary = None
    /\ args = None
    /\ raised = None
    /\ threads = <<>>
    /\ analysis = None

\* comments = AnthropicResponseParser.parse_response(response_text)
CallParseResponse ==
    /\ lastOp = "init"
    /\ comments' = Some(parse_response(response_text[1]))
    /\ lastOp' = "parse_response"
    /\ UNCHANGED <<diff_filter, diff, result, passes, segmented, files, untruncated,
                   decision, summary, args, raised, threads, analysis>>
    /\ UNCHANGED <<scope, response_text, html, review, pull_request>>

NextParser == CallParseResponse

SpecParser == InitParser /\ [][NextParser]_vars

(***************************************************************************)
(* Reports: lists of up to MaxComments comments whose fields hold the      *)
(* characters that HTML gives a meaning.                                   *)
(***************************************************************************)
MaxComments == 1

ReportComments ==
    [file          : {PyStr(<<"a">>), PyStr(<<"<", "b", ">">>)},
     line          : {PyNone, PyInt(<<"5">>)},
     issue         : {PyStr(<<"x", "&", "y">>)},
     suggestion    : {PyStr(<<"\"", "c", "\"">>)},
     severity      : {PyStr(Severities[4]), PyStr(<<"H", "i", "g", "h">>),
                      PyStr(<<"<", "i", ">">>), PyStr(<<"x", "'", "y">>)},
     category      : {PyNone, PyStr(<<"k", "'">>)},
     wcag_criteria : {PyNone, PyStr(<<"1", ".", "1", "<">>)}]

ReviewTypes == {"accessibility", "code_review"}

InitReport ==
    /\ comments \in { Some([raised |-> None, returned |-> c]) :
                        c \in {<<>>} \cup SeqsUpTo(ReportComments, MaxComments) }
    /\ review \in { Some([pr_number |-> 7, review_type |-> t]) : t \in ReviewTypes }
    /\ html = None
    /\ response_text = None
    /\ scope = None
    /\ pull_request = None
    /\ diff_filter = DiffFilter(<<>>, <<>>, 0, None)
    /\ diff = <<>>
    /\ result = <<>>
    /\ lastOp = "init"
    /\ passes = 0
    /\ segmented = FALSE
    /\ files = <<>>
    /\ untruncated = <<>>
    /\ decision = None
    /\ summary = None
    /\ args = None
    /\ raised = None
    /\ threads = <<>>
    /\ analysis = None

\* html = AnthropicResponseParser.generate_html_report(comments, pr_number,
\* review_type)
CallGenerateHtmlReport ==
    /\ lastOp = "init"
    /\ html' = Some(generate_html_report(comments[1].returned, review[1].pr_number,
                                         review[1].review_type))
    /\ lastOp' = "generate_html_report"
    /\ UNCHANGED <<diff_filter, diff, result, passes, segmented, files, untruncated,
                   decision, summary, args, raised, threads, analysis>>
    /\ UNCHANGED <<scope, response_text, comments, review, pull_request>>

NextReport == CallGenerateHtmlReport

SpecReport == InitReport /\ [][NextReport]_vars

(***************************************************************************)
(* Reviews: pull requests whose diff has up to MaxReviewLines lines, and   *)
(* answers of Claude with no, one and two comments and with no JSON.       *)
(***************************************************************************)
MaxReviewLines == 2

ClaudeTexts ==
    { <<"[", "]">>, <<"[">> \o ItemFull \o <<"]">>,
      <<"[">> \o ItemFull \o <<",">> \o ItemRich \o <<"]">>, <<"x">> }

InitReviewPr ==
    /\ review \in { Some([pr_number |-> n, raw_diff |-> Join(<<NL>>, ls),
                          filtered_diff |-> <<>>, ended_in |-> "",
                          raised |-> None, returned |-> None]) :
                      n \in {7, 12}, ls \in SeqsUpTo(ReviewLines, MaxReviewLines) }
    /\ response_text \in { Some(t) : t \in ClaudeTexts }
    /\ comments = None
    /\ html = None
    /\ scope = None
    /\ pull_request = None
    /\ diff_filter = DiffFilter(<<>>, <<>>, 0, None)
    /\ diff = <<>>
    /\ result = <<>>
    /\ lastOp = "init"
    /\ passes = 0
    /\ segmented = FALSE
    /\ files = <<>>
    /\ untruncated = <<>>
    /\ decision = None
    /\ summary = None
    /\ args = None
    /\ raised = None
    /\ threads = <<>>
    /\ analysis = None

\* comments, html = reviewer.review_pr(pr_number)
CallReviewPr ==
    /\ lastOp = "init"
    /\ LET out == review_pr(review[1].pr_number, review[1].raw_diff, response_text[1])
       IN  /\ review' = Some([review[1] EXCEPT !.filtered_diff = out.filtered_diff,
                                                !.ended_in = out.ended_in,
                                                !.raised = out.raised,
                                                !.returned = out.returned])
           /\ comments' = IF IsNone(out.raised) THEN Some(out.returned[1][1]) ELSE None
           /\ html' = IF IsNone(out.raised) THEN Some(out.returned[1][2]) ELSE None
    /\ lastOp' = "review_pr"
    /\ UNCHANGED <<diff_filter, diff, result, passes, segmented, files, untruncated,
                   decision, summary, args, raised, threads, analysis>>
    /\ UNCHANGED <<scope, response_text, pull_request>>

NextReviewPr == CallReviewPr

SpecReviewPr == InitReviewPr /\ [][NextReviewPr]_vars

(***************************************************************************)
(* Pull requests of up to MaxFiles files: kept and excluded names; binary  *)
(* files, empty patches, patches of added and deleted lines, among them    *)
(* the added line `++ b/dist/` and the deleted line `-- a/t`.              *)
(***************************************************************************)
MaxFiles == 2

PrFileNames == { <<"m">>, <<"d", "i", "s", "t", "/", "x">> }

PrPatches ==
    { None, Some(<<>>), Some(<<"+", "n">>), Some(<<"-", "o", NL, "+", "n">>),
      Some(HeaderB \o <<"d", "i", "s", "t", "/">>), Some(HeaderA \o <<"t">>) }

PrFiles == [filename : PrFileNames, patch : PrPatches]

InitFetch ==
    /\ pull_request \in { Some(fs) : fs \in {<<>>} \cup SeqsUpTo(PrFiles, MaxFiles) }
    /\ diff_filter = DiffFilter(<<>>, EXCLUDE_PATTERNS, 0, None)
    /\ diff = <<>>
    /\ result = <<>>
    /\ lastOp = "init"
    /\ passes = 0
    /\ segmented = FALSE
    /\ files = <<>>
    /\ untruncated = <<>>
    /\ decision = None
    /\ summary = None
    /\ args = None
    /\ raised = None
    /\ threads = <<>>
    /\ analysis = None
    /\ scope = None
    /\ response_text = None
    /\ comments = None
    /\ html = None
    /\ review = None

\* diff = fetcher._get_pr_diff(pull_request)
CallGetPrDiff ==
    /\ lastOp = "init"
    /\ diff' = get_pr_diff(pull_request[1])
    /\ lastOp' = "_get_pr_diff"
    /\ UNCHANGED <<diff_filter, result, passes, segmented, files, untruncated, decision>>
    /\ UNCHANGED <<summary, args, raised, threads, analysis>>
    /\ UNCHANGED reviewVars

\* result = reviewer._filter_diff(diff), of the diff the fetcher made
FetchedReviewFilterDiff ==
    /\ lastOp = "_get_pr_diff"
    /\ untruncated' = ReviewJoined(diff)
    /\ result' = review_filter_diff(diff)
    /\ passes' = 1
    /\ lastOp' = "_filter_diff"
    /\ UNCHANGED <<diff_filter, diff, segmented, files, decision>>
    /\ UNCHANGED <<summary, args, raised, threads, analysis>>
    /\ UNCHANGED reviewVars

\* result = diff_filter.filter_diff(diff), of the diff the fetcher made
FetchedFilterDiff ==
    /\ lastOp = "_get_pr_diff"
    /\ result' = filter_diff(diff_filter, diff)
    /\ segmented' = ~ReturnsEarly(diff)
    /\ passes' = 1
    /\ lastOp' = "filter_diff"
    /\ UNCHANGED <<diff_filter, diff, files, untruncated, decision>>
    /\ UNCHANGED <<summary, args, raised, threads, analysis>>
    /\ UNCHANGED reviewVars

\* files = diff_filter._parse_diff_by_files(diff), of the diff the fetcher
\* made
FetchedParseDiffByFiles ==
    /\ lastOp = "_get_pr_diff"
    /\ files' = parse_diff_by_files(diff)
    /\ lastOp' = "_parse_diff_by_files"
    /\ UNCHANGED <<diff_filter, diff, result, passes, segmented, untruncated, decision>>
    /\ UNCHANGED <<summary, args, raised, threads, analysis>>
    /\ UNCHANGED reviewVars

NextFetch ==
    \/ CallGetPrDiff
    \/ FetchedReviewFilterDiff
    \/ FetchedFilterDiff
    \/ FetchedParseDiffByFiles

SpecFetch == InitFetch /\ [][NextFetch]_vars

(***************************************************************************)
(* Vocabulary of the properties.                                           *)
(***************************************************************************)
Range(seq) == { seq[i] : i \in 1..Len(seq) }

\* The lines of a text that begin with `--- a/`, in order.
HeaderLines(s) == SelectSeq(Split(s), LAMBDA l : StartsWith(l, HeaderA))

\* a is b with some elements left out: same elements, same relative order.
RECURSIVE IsSubseq(_, _)
IsSubseq(a, b) ==
    IF Len(a) = 0 THEN TRUE
    ELSE IF Len(b) = 0 THEN FALSE
    ELSE IF a[1] = b[1] THEN IsSubseq(Tail(a), Tail(b))
    ELSE IsSubseq(a, Tail(b))

\* The file names of a list of file diffs, in order.
FileNamesOf(file_diffs) == [i \in 1..Len(file_diffs) |-> file_diffs[i].filename]

\* The file diffs of a list that the retention predicate accepts, in order.
Retained(self, file_diffs) ==
    SelectSeq(file_diffs, LAMBDA f : should_include_file_diff(self, f))

\* Every character of s is a space, a tab or a newline.
WhitespaceOnly(s) == \A i \in 1..Len(s) : s[i] = " " \/ s[i] = "\t" \/ s[i] = NL

(***************************************************************************)
(* C1  filter_diff is idempotent: filtering the result of filter_diff      *)
(* again, with the same configuration, returns that result unchanged, also *)
(* when two or more file segments are retained.                            *)
(* After the second call, `diff` is the first call's result and `result`   *)
(* the second's.                                                           *)
(***************************************************************************)
C1_FilterDiffIdempotent ==
    (lastOp = "filter_diff" /\ passes >= 2) => result = diff

(***************************************************************************)
(* C2  _should_include_file_diff returns true exactly when no exclude      *)
(* pattern matches the filename, the include list is empty or some include *)
(* pattern matches it, additions + deletions >= min_line_changes, and      *)
(* max_line_changes is unset or additions + deletions <= max_line_changes; *)
(* a total equal to either bound is retained.                              *)
(***************************************************************************)
C2_RetentionPredicate ==
    lastOp = "_should_include_file_diff" =>
        LET f     == decision[1].file_diff
            total == f.additions + f.deletions
        IN  decision[1].returned <=>
              /\ \A p \in Range(diff_filter.exclude_patterns) :
                    ~Search(p, f.filename)
              /\ \/ diff_filter.include_patterns = <<>>
                 \/ \E p \in Range(diff_filter.include_patterns) :
                       Search(p, f.filename)
              /\ total >= diff_filter.min_line_changes
              /\ \/ diff_filter.max_line_changes = None
                 \/ total <= diff_filter.max_line_changes[1]

\* A file whose total equals both bounds, matched by an include pattern and
\* by no exclude pattern of a non-empty list, is retained.
C2_Witness ==
    /\ lastOp = "_should_include_file_diff"
    /\ decision[1].returned
    /\ Len(diff_filter.include_patterns) > 0
    /\ Len(diff_filter.exclude_patterns) > 0
    /\ diff_filter.min_line_changes = 1
    /\ diff_filter.max_line_changes = Some(1)
    /\ decision[1].file_diff.additions + decision[1].file_diff.deletions = 1

(***************************************************************************)
(* C3  Exclusion always wins: the header of a segment of the input whose   *)
(* filename matches an exclude pattern is no line of filter_diff's output, *)
(* whatever include patterns the filename matches and whatever its change  *)
(* count.                                                                  *)
(***************************************************************************)
C3_ExclusionWins ==
    lastOp = "filter_diff" =>
        \A f \in Range(parse_diff_by_files(diff)) :
            (\E p \in Range(diff_filter.exclude_patterns) : Search(p, f.filename))
                => HeaderA \o f.filename \notin Range(Split(result))

\* A segment matched by an include and by an exclude pattern was dropped
\* from an output that kept another segment.
C3_Witness ==
    /\ lastOp = "filter_diff"
    /\ passes = 1
    /\ result # <<>>
    /\ \E f \in Range(parse_diff_by_files(diff)) :
          /\ \E p \in Range(diff_filter.exclude_patterns) : Search(p, f.filename)
          /\ \E p \in Range(diff_filter.include_patterns) : Search(p, f.filename)
          /\ f.additions + f.deletions >= diff_filter.min_line_changes

(***************************************************************************)
(* C4  Order preservation: the segments of filter_diff's output are the    *)
(* retained segments of the input, in the input's order, each once; the    *)
(* header lines of the output are header lines of the input in the same    *)
(* relative order.                                                         *)
(***************************************************************************)
C4_OrderPreserved ==
    lastOp = "filter_diff" =>
        /\ FileNamesOf(parse_diff_by_files(result))
             = FileNamesOf(Retained(diff_filter, parse_diff_by_files(diff)))
        /\ IsSubseq(HeaderLines(result), HeaderLines(diff))

\* Two segments with different names were retained.
C4_Witness ==
    /\ lastOp = "filter_diff"
    /\ passes = 1
    /\ LET names == FileNamesOf(parse_diff_by_files(result))
       IN  /\ Len(names) = 2
           /\ names[1] # names[2]

(***************************************************************************)
(* C5  _parse_diff_by_files returns exactly one segment for each input     *)
(* line that begins with `--- a/`, in input order, and the i-th segment's  *)
(* filename is the text after the 6-character prefix of the i-th such      *)
(* line, for every path text.                                              *)
(***************************************************************************)
C5_OneSegmentPerHeader ==
    lastOp = "_parse_diff_by_files" =>
        LET headers == HeaderLines(diff)
        IN  /\ Len(files) = Len(headers)
            /\ \A i \in 1..Len(files) :
                  files[i].filename = SliceFrom(headers[i], 6)

(***************************************************************************)
(* C6  Every segment that _parse_diff_by_files returns has as its first    *)
(* line the `--- a/` header of its file and contains no other line that    *)
(* begins with `--- a/`.                                                   *)
(***************************************************************************)
C6_SegmentOwnsItsHeader ==
    lastOp = "_parse_diff_by_files" =>
        \A i \in 1..Len(files) :
            LET ls == Split(files[i].content)
            IN  /\ ls[1] = HeaderA \o files[i].filename
                /\ \A j \in 2..Len(ls) : ~StartsWith(ls[j], HeaderA)

(***************************************************************************)
(* C7  _filter_diff returns the first MAX_DIFF_SIZE characters of the      *)
(* newline-joined text of the kept file blocks when that text is longer    *)
(* than MAX_DIFF_SIZE, and that text unchanged otherwise; the returned     *)
(* string never has more than MAX_DIFF_SIZE characters.                    *)
(***************************************************************************)
C7_TruncatesToPrefix ==
    lastOp = "_filter_diff" =>
        /\ Len(result) <= MAX_DIFF_SIZE
        /\ Len(untruncated) > MAX_DIFF_SIZE =>
              /\ Len(result) = MAX_DIFF_SIZE
              /\ \A i \in 1..MAX_DIFF_SIZE : result[i] = untruncated[i]
        /\ Len(untruncated) <= MAX_DIFF_SIZE => result = untruncated

\* The kept text was longer than the cap and was cut.
C7_Witness ==
    /\ lastOp = "_filter_diff"
    /\ passes = 1
    /\ Len(untruncated) > MAX_DIFF_SIZE
    /\ result # untruncated

(***************************************************************************)
(* C8  Size cap exactness.  As claimed: whenever the diff handed to        *)
(* _filter_diff, before any filtering, is longer than MAX_DIFF_SIZE, the   *)
(* returned string has exactly MAX_DIFF_SIZE characters.                   *)
(***************************************************************************)
C8_RawLongerGivesExactlyCap ==
    (lastOp = "_filter_diff" /\ Len(diff) > MAX_DIFF_SIZE)
        => Len(result) = MAX_DIFF_SIZE

(***************************************************************************)
(* C8, amended: whenever the newline-joined text of the kept file blocks   *)
(* is longer than MAX_DIFF_SIZE the returned string has exactly            *)
(* MAX_DIFF_SIZE characters; a diff that is longer than MAX_DIFF_SIZE      *)
(* before filtering gives at most MAX_DIFF_SIZE characters.                *)
(***************************************************************************)
C8_KeptLongerGivesExactlyCap ==
    lastOp = "_filter_diff" =>
        /\ Len(untruncated) > MAX_DIFF_SIZE => Len(result) = MAX_DIFF_SIZE
        /\ Len(diff) > MAX_DIFF_SIZE => Len(result) <= MAX_DIFF_SIZE

\* A raw diff longer than the cap whose kept text is longer than the cap
\* too, although filtering removed part of it.
C8_Witness ==
    /\ lastOp = "_filter_diff"
    /\ passes = 1
    /\ Len(diff) > Len(untruncated)
    /\ Len(untruncated) > MAX_DIFF_SIZE
    /\ Len(result) = MAX_DIFF_SIZE

(***************************************************************************)
(* C9  filter_diff returns the empty string for every input that is empty  *)
(* or whitespace-only, under every configuration, and does not segment     *)
(* that input.                                                             *)
(***************************************************************************)
C9_BlankInputGivesEmpty ==
    (lastOp = "filter_diff" /\ WhitespaceOnly(diff))
        => (result = <<>> /\ ~segmented)

\* A non-empty input of whitespace only was filtered.
C9_Witness ==
    /\ lastOp = "filter_diff"
    /\ passes = 1
    /\ Len(diff) > 1
    /\ WhitespaceOnly(diff)
    /\ \E i \in 1..Len(diff) : diff[i] = " "
    /\ \E i \in 1..Len(diff) : diff[i] = NL

(***************************************************************************)
(* C10  In the output of filter_diff, consecutive retained file blocks are *)
(* separated by exactly one blank line: before the `--- a/` header that    *)
(* starts a further block lies exactly one empty line, and the line before *)
(* that one is not empty, also when the input already has a blank line     *)
(* between files.                                                          *)
(***************************************************************************)
C10_OneBlankLineBetweenBlocks ==
    lastOp = "filter_diff" =>
        LET ls == Split(result)
        IN  \A j \in 3..Len(ls) :
                (StartsWith(ls[j], HeaderA) /\ ~StartsWith(ls[j - 1], HeaderA))
                    => (ls[j - 1] = <<>> /\ ls[j - 2] # <<>>)

\* The configuration that removes nothing: no pattern, no bound.
RemovesNothing(self) ==
    /\ self.include_patterns = <<>>
    /\ self.exclude_patterns = <<>>
    /\ self.min_line_changes = 0
    /\ self.max_line_changes = None

\* The lines of the file diffs of a list, one after the other, with `sep`
\* (a list of lines) between one file diff and the next.
RECURSIVE LinesOfSegments(_, _)
LinesOfSegments(file_diffs, sep) ==
    IF Len(file_diffs) = 0 THEN <<>>
    ELSE IF Len(file_diffs) = 1 THEN Split(file_diffs[1].content)
    ELSE Split(file_diffs[1].content) \o sep
         \o LinesOfSegments(Tail(file_diffs), sep)

CountWhere(seq, Test(_)) == Cardinality({ i \in 1..Len(seq) : Test(seq[i]) })

(***************************************************************************)
(* C12  For every segment, additions is the number of its lines that begin *)
(* with `+` other than its `+++` header line, and deletions the number of  *)
(* its lines that begin with `-` other than its `---` header line; both    *)
(* are >= 0.  Every line that begins with `+++ b/` or `--- a/` is taken    *)
(* for a header line here.                                                 *)
(***************************************************************************)
C12_CountsChangedLines ==
    lastOp = "_parse_diff_by_files" =>
        \A i \in 1..Len(files) :
            LET ls == Split(files[i].content)
            IN  /\ files[i].additions =
                     CountWhere(ls, LAMBDA l : StartsWith(l, <<"+">>)
                                               /\ ~StartsWith(l, HeaderB))
                /\ files[i].deletions =
                     CountWhere(ls, LAMBDA l : StartsWith(l, <<"-">>)
                                               /\ ~StartsWith(l, HeaderA))
                /\ files[i].additions >= 0
                /\ files[i].deletions >= 0

\* The segments' additions (deletions) counted one segment after the other.
RECURSIVE AdditionsUpTo(_, _)
AdditionsUpTo(segs, n) ==
    IF n = 0 THEN 0 ELSE AdditionsUpTo(segs, n - 1) + segs[n].additions

RECURSIVE DeletionsUpTo(_, _)
DeletionsUpTo(segs, n) ==
    IF n = 0 THEN 0 ELSE DeletionsUpTo(segs, n - 1) + segs[n].deletions

(***************************************************************************)
(* C13  get_summary(d) reports files_changed equal to the number of        *)
(* segments of d, additions and deletions equal to the sums of the         *)
(* per-segment counts and total_changes equal to additions + deletions;    *)
(* for a diff with no segment all four are 0.  The object's retention      *)
(* filter plays no part.                                                   *)
(***************************************************************************)
C13_SummaryCountsEverySegment ==
    lastOp = "get_summary" =>
        LET segs == parse_diff_by_files(diff)
            s    == summary[1]
        IN  /\ s.files_changed = Len(segs)
            /\ s.additions = AdditionsUpTo(segs, Len(segs))
            /\ s.deletions = DeletionsUpTo(segs, Len(segs))
            /\ s.total_changes = s.additions + s.deletions
            /\ segs = <<>> =>
                 /\ s.files_changed = 0
                 /\ s.additions = 0
                 /\ s.deletions = 0
                 /\ s.total_changes = 0

\* A summary of two segments with changed lines, by an object whose filter
\* would drop one of them.
C13_Witness ==
    /\ lastOp = "get_summary"
    /\ summary[1].files_changed = 2
    /\ summary[1].total_changes > 0
    /\ Len(FilteredDiffs(diff_filter, parse_diff_by_files(diff))) = 1

\* The pattern matches the part of the filename between its first `a` and
\* its first `b` characters, for some a and b: any part where the pattern
\* has no anchor, a part at the start under ^ and at the end under $.
MatchesSubstring(p, filename) ==
    \E a \in 0..Len(filename) : \E b \in a..Len(filename) :
        /\ [k \in 1..(b - a) |-> filename[a + k]] = p.lit
        /\ p.start => a = 0
        /\ p.end => b = Len(filename)

(***************************************************************************)
(* C14  Filename patterns use search semantics: an include or exclude      *)
(* pattern matches a segment when it matches any substring of the          *)
(* filename, and is tied to the start or the end of the filename only      *)
(* where the pattern itself has ^ or $.  With no line-count limit, a       *)
(* segment is accepted exactly when no exclude pattern matches so and the  *)
(* include list is empty or holds a pattern that matches so.               *)
(***************************************************************************)
C14_SearchSemantics ==
    (lastOp = "_should_include_file_diff"
     /\ diff_filter.min_line_changes = 0
     /\ diff_filter.max_line_changes = None) =>
        LET name     == decision[1].file_diff.filename
            includes == diff_filter.include_patterns
            excludes == diff_filter.exclude_patterns
        IN  decision[1].returned <=>
              /\ \A i \in 1..Len(excludes) : ~MatchesSubstring(excludes[i], name)
              /\ \/ Len(includes) = 0
                 \/ \E i \in 1..Len(includes) : MatchesSubstring(includes[i], name)

\* The file tm was accepted under the include pattern m, which matches
\* behind its first character, and the exclude pattern ^m, which the name
\* mt would match and tm does not.
C14_Witness ==
    /\ lastOp = "_should_include_file_diff"
    /\ decision[1].file_diff.filename = <<"t", "m">>
    /\ diff_filter.include_patterns = << Pattern(FALSE, <<"m">>, FALSE) >>
    /\ diff_filter.exclude_patterns = << Pattern(TRUE, <<"m">>, FALSE) >>
    /\ decision[1].returned

\* A file block of the review path starts at a line that begins with
\* `--- a/` or `+++ b/` and runs up to the next such line; its filename is
\* what follows the six characters.  BlockOf is the line number of the
\* header of the block that line n belongs to, 0 before the first block.
IsBlockHeader(line) == StartsWith(line, HeaderA) \/ StartsWith(line, HeaderB)

BlockOf(lines, n) ==
    LET hs == { j \in 1..n : IsBlockHeader(lines[j]) }
    IN  IF hs = {} THEN 0 ELSE CHOOSE j \in hs : \A k \in hs : k <= j

BlockIsExcluded(lines, h) ==
    \E i \in 1..Len(EXCLUDE_PATTERNS) :
        MatchesSubstring(EXCLUDE_PATTERNS[i], SliceFrom(lines[h], 6))

\* The first n lines without the lines outside every block and without the
\* lines of the blocks whose filename matches a built-in pattern.
RECURSIVE UnexcludedLines(_, _)
UnexcludedLines(lines, n) ==
    IF n = 0 THEN <<>>
    ELSE UnexcludedLines(lines, n - 1)
         \o (IF BlockOf(lines, n) # 0 /\ ~BlockIsExcluded(lines, BlockOf(lines, n))
             THEN <<lines[n]>> ELSE <<>>)

UnexcludedText(text) ==
    Join(<<NL>>, UnexcludedLines(Split(text), Len(Split(text))))

AllBlocksExcluded(text) ==
    \A n \in 1..Len(Split(text)) :
        IsBlockHeader(Split(text)[n]) => BlockIsExcluded(Split(text), n)

(***************************************************************************)
(* C15  _filter_diff keeps a file block only if its header filename        *)
(* matches none of EXCLUDE_PATTERNS: the output is the blocks whose        *)
(* filename matches no pattern, whole and in input order, and nothing of   *)
(* the other blocks; a diff whose files are all excluded yields the empty  *)
(* string.                                                                 *)
(***************************************************************************)
C15_OutputIsTheUnexcludedBlocks ==
    lastOp = "_filter_diff" =>
        /\ result = UnexcludedText(diff)
        /\ AllBlocksExcluded(diff) => result = <<>>

(***************************************************************************)
(* C15, amended  The text _filter_diff builds before its size check is     *)
(* the blocks whose filename matches no pattern, whole and in input order, *)
(* and nothing of the other blocks; the output is that text when it has at *)
(* most MAX_DIFF_SIZE characters and its first MAX_DIFF_SIZE characters    *)
(* otherwise, so a block past the cap is cut or missing.  A diff whose     *)
(* files are all excluded yields the empty string.                         *)
(***************************************************************************)
C15_UnexcludedBlocksUpToTheCap ==
    lastOp = "_filter_diff" =>
        /\ untruncated = UnexcludedText(diff)
        /\ Len(UnexcludedText(diff)) <= MAX_DIFF_SIZE => result = UnexcludedText(diff)
        /\ Len(UnexcludedText(diff)) > MAX_DIFF_SIZE =>
             result = SubSeq(UnexcludedText(diff), 1, MAX_DIFF_SIZE)
        /\ AllBlocksExcluded(diff) => result = <<>>

\* An excluded block in front of a kept one: the output is the kept block
\* alone, whole.
C15_Witness ==
    /\ lastOp = "_filter_diff"
    /\ passes = 1
    /\ Len(Split(diff)) = 3
    /\ BlockOf(Split(diff), 1) = 1 /\ BlockIsExcluded(Split(diff), 1)
    /\ BlockOf(Split(diff), 3) = 2 /\ ~BlockIsExcluded(Split(diff), 2)
    /\ Split(result) = SubSeq(Split(diff), 2, 3)

\* The pattern texts of the inputs that re.compile rejects.
Uncompilable == { <<"(">>, <<"m", "(">>, <<"[">> }

HasUncompilable(patterns) == \E i \in 1..Len(patterns) : patterns[i] \in Uncompilable

(***************************************************************************)
(* C17  An include or exclude pattern that does not compile makes the      *)
(* construction of the DiffFilter fail: the constructor raises and leaves  *)
(* no object.  Once a DiffFilter exists, every pattern it holds is a       *)
(* compiled one, and filter_diff runs on it without an exception.          *)
(***************************************************************************)
C17_InvalidPatternFailsConstruction ==
    /\ (lastOp # "new" /\ ( \/ HasUncompilable(args.include_patterns)
                            \/ HasUncompilable(args.exclude_patterns) )) =>
           /\ raised = Some("re.error")
           /\ diff_filter = None
           /\ lastOp = "__init__ raised"
    /\ (lastOp \in {"init", "filter_diff"}) =>
           /\ raised = None
           /\ ~HasUncompilable(args.include_patterns)
           /\ ~HasUncompilable(args.exclude_patterns)
           /\ Len(diff_filter.include_patterns) = Len(args.include_patterns)
           /\ Len(diff_filter.exclude_patterns) = Len(args.exclude_patterns)
           /\ \A i \in 1..Len(args.include_patterns) :
                  diff_filter.include_patterns[i] = Compiled(args.include_patterns[i])
           /\ \A i \in 1..Len(args.exclude_patterns) :
                  diff_filter.exclude_patterns[i] = Compiled(args.exclude_patterns[i])
           /\ lastOp = "filter_diff" =>
                  result = filter_diff(diff_filter, diff)

\* The constructor raised on an exclude list whose second text does not
\* compile, the include list being sound.
C17_Witness ==
    /\ lastOp = "__init__ raised"
    /\ raised = Some("re.error")
    /\ args.include_patterns = << <<"^", "m">>, <<"m", "$">> >>
    /\ args.exclude_patterns = << <<"m">>, <<"m", "(">> >>

\* Every call has returned a value, none has raised.
AllReturned ==
    \A t \in Threads :
        /\ threads[t].pc = "done"
        /\ ~IsNone(threads[t].ret)
        /\ IsNone(threads[t].exc)

(***************************************************************************)
(* C16  filter_diff and get_summary terminate and return a value without   *)
(* raising for every input string, well-formed diff or not: every call     *)
(* that was started reaches its return statement, and no step of it ends   *)
(* in an exception.                                                        *)
(***************************************************************************)
C16_TerminatesWithoutRaising == <>AllReturned

\* Both calls have returned on texts that are no diff: a filter_diff call
\* on an added line without a header gave the empty string, and a
\* get_summary call on a header behind an added line counted one file.
C16_Witness ==
    /\ AllReturned
    /\ threads[1].op = "filter_diff"
    /\ threads[1].diff = <<"+", "n">>
    /\ threads[1].ret = Some(<<>>)
    /\ threads[2].op = "get_summary"
    /\ threads[2].diff = <<"+", "n", NL>> \o HeaderA \o <<"m">>
    /\ threads[2].ret[1].files_changed = 1

\* What the call of frame f returns when it runs alone on the object self.
ReturnsAlone(self, f) ==
    IF f.op = "filter_diff"
    THEN filter_diff(self, f.diff)
    ELSE get_summary(self, f.diff)

(***************************************************************************)
(* C18  filter_diff and get_summary calls that run at the same time on one *)
(* DiffFilter, interleaved at any step, each return exactly what they      *)
(* return when run alone, and the filter's patterns and bounds stay what   *)
(* the constructor made them.                                              *)
(***************************************************************************)
C18_ConcurrentCallsDoNotInterfere ==
    /\ diff_filter = DiffFilter_init(args.include_patterns, args.exclude_patterns,
                                     args.min_line_changes, args.max_line_changes).self[1]
    /\ \A t \in Threads :
           threads[t].pc = "done" =>
               threads[t].ret = Some(ReturnsAlone(diff_filter, threads[t]))

\* The second thread's get_summary call has returned a count of two files
\* while the first thread's filter_diff call, on another diff, is in its
\* filter loop with one of its two files behind it.
C18_Witness ==
    /\ threads[1].op = "filter_diff"
    /\ threads[1].pc = "filter"
    /\ threads[1].k = 2
    /\ Len(threads[1].file_diffs) = 2
    /\ threads[2].op = "get_summary"
    /\ threads[2].pc = "done"
    /\ threads[2].ret[1].files_changed = 2
    /\ threads[1].diff # threads[2].diff

\* The callees of the calls that the analyze_pr call has made, in order.
Callees(a) == [i \in 1..Len(a.calls) |-> a.calls[i].callee]

Called(a, callee) == \E i \in 1..Len(a.calls) : a.calls[i].callee = callee

(***************************************************************************)
(* C19  When the filtered diff is empty or whitespace-only, analyze_pr     *)
(* returns a result whose error entry is `No changes matched the filter    *)
(* criteria` and calls neither get_summary, get_pr_info nor analyze_diff;  *)
(* hence no analyze_diff call of analyze_pr has an empty diff.             *)
(***************************************************************************)
C19_EmptyFilteredDiffStopsTheAnalysis ==
    /\ (Called(analysis, "filter_diff") /\ StripIsEmpty(analysis.filtered_diff)) =>
           /\ analysis.pc = "done"
           /\ "error" \in DOMAIN analysis.ret[1]
           /\ analysis.ret[1].error = "No changes matched the filter criteria"
           /\ ~Called(analysis, "get_summary")
           /\ ~Called(analysis, "get_pr_info")
           /\ ~Called(analysis, "analyze_diff")
    /\ \A i \in 1..Len(analysis.calls) :
           analysis.calls[i].callee = "analyze_diff" =>
               ~StripIsEmpty(analysis.calls[i].diff)

\* The fetched diff had a file and the filter dropped it: analyze_pr has
\* returned the error after two calls.
C19_Witness ==
    /\ analysis.pc = "done"
    /\ Len(analysis.calls) = 2
    /\ analysis.calls[2].callee = "filter_diff"
    /\ Len(parse_diff_by_files(analysis.calls[2].diff)) > 0
    /\ analysis.filtered_diff = <<>>
    /\ analysis.ret[1].error = "No changes matched the filter criteria"

(***************************************************************************)
(* C20  In a successful analyze_pr the collaborators are called in the     *)
(* order fetch_pr_diff, filter_diff, get_summary, get_pr_info,             *)
(* analyze_diff, each at most once; get_pr_info is called only when        *)
(* include_pr_info is true, and when it is false analyze_diff receives     *)
(* context None.                                                           *)
(***************************************************************************)
C20_CollaboratorsInOrder ==
    (analysis.pc = "done" /\ "analysis" \in DOMAIN analysis.ret[1]) =>
        /\ Callees(analysis) =
             <<"fetch_pr_diff", "filter_diff", "get_summary">>
               \o (IF analysis.include_pr_info THEN <<"get_pr_info">> ELSE <<>>)
               \o <<"analyze_diff">>
        /\ ~analysis.include_pr_info =>
               analysis.calls[Len(analysis.calls)].context = None

\* A successful analyze_pr without PR information: four calls, the last
\* one analyze_diff with context None.
C20_Witness ==
    /\ analysis.pc = "done"
    /\ "analysis" \in DOMAIN analysis.ret[1]
    /\ ~analysis.include_pr_info
    /\ Len(analysis.calls) = 4
    /\ analysis.calls[4].callee = "analyze_diff"
    /\ analysis.calls[4].context = None

(***************************************************************************)
(* C21  Leaving a with block of PRDiffAnalyzer, AnthropicCodeReview or     *)
(* GitHubDiffFetcher closes the underlying GitHub client exactly once,     *)
(* whether the block ends normally or by an exception raised inside it:    *)
(* once the block is left, the client has had one close call more than     *)
(* when the block ended.                                                   *)
(***************************************************************************)
C21_LeavingClosesOnce ==
    scope.pc = "left" => scope.github_client = scope.at_exit + 1

\* A with block of PRDiffAnalyzer that ran two statements without closing
\* anything raised an exception, and the client has been closed once.
C21_Witness ==
    /\ scope.pc = "left"
    /\ scope.cls = "PRDiffAnalyzer"
    /\ scope.steps = 2
    /\ scope.exc = Some("Exception")
    /\ scope.github_client = 1

\* The JSON objects among the items of an array.
ObjectsOf(data) == SelectSeq(data, LAMBDA item : item.t = "dict")

\* What is raised and returned is what the value `data` read from a
\* response asks for (None: the text read was no JSON): ValueError for no
\* JSON, TypeError for a value that is no array, ValueError and no comment
\* for an array with an object that lacks one of file, issue, suggestion and
\* severity, and otherwise one comment for each object of the array, in the
\* order of the array, with the fields of the object.
Answers(data, out) ==
    IF IsNone(data) THEN out.raised = Some("ValueError")
    ELSE IF data[1].t # "list" THEN out.raised = Some("TypeError")
    ELSE LET objects == ObjectsOf(data[1].v)
         IN  IF \E i \in 1..Len(objects) :
                    \E key \in {KeyFile, KeyIssue, KeySuggestion, KeySeverity} :
                        key \notin DOMAIN objects[i].v
             THEN out.raised = Some("ValueError") /\ out.returned = <<>>
             ELSE /\ IsNone(out.raised)
                  /\ Len(out.returned) = Len(objects)
                  /\ \A i \in 1..Len(objects) :
                        /\ out.returned[i].file = objects[i].v[KeyFile]
                        /\ out.returned[i].issue = objects[i].v[KeyIssue]
                        /\ out.returned[i].suggestion = objects[i].v[KeySuggestion]
                        /\ out.returned[i].severity = objects[i].v[KeySeverity]
                        /\ \A key \in {KeyLine, KeyCategory} :
                              LET field == IF key = KeyLine
                                           THEN out.returned[i].line
                                           ELSE out.returned[i].category
                              IN  IF key \in DOMAIN objects[i].v
                                  THEN field = objects[i].v[key]
                                  ELSE field = PyNone

\* C22 as the specification states it: parse_response raises ValueError for
\* a text that is not valid JSON, TypeError for JSON that is not an array,
\* ValueError and no comment if an object of the array lacks a required
\* field, and otherwise returns one ReviewComment per object, in order.
C22_AnswersTheText ==
    lastOp = "parse_response" => Answers(json_loads(response_text[1]), comments[1])

\* C22, amended: the same of the text that is left when the whitespace
\* around the response and a Markdown code fence (three grave accents, with
\* or without the word json, before it, three grave accents behind it) are
\* taken away; a fenced array is no valid JSON and yet is answered with its
\* comments.
C22_AnswersTheTextInsideTheFence ==
    lastOp = "parse_response"
        => Answers(json_loads(CleanedText(response_text[1])), comments[1])

\* A fenced response of two objects has been answered with two comments in
\* the order of the array.
C22_Witness ==
    /\ lastOp = "parse_response"
    /\ StartsWith(response_text[1], FenceJson)
    /\ IsNone(comments[1].raised)
    /\ Len(comments[1].returned) = 2
    /\ comments[1].returned[1].file = PyStr(<<"a">>)
    /\ comments[1].returned[2].file = PyStr(<<"z">>)
    /\ comments[1].returned[2].line = PyInt(<<"5">>)


\* The characters that HTML gives a meaning, which escape() rewrites.
MarkupCharacters == {"&", "<", ">", "\"", "'"}

\* C23: every string that generate_html_report takes from a comment is
\* escaped where it is written, so outside the pieces of the template the
\* report holds none of the characters & < > " ' (a field adds no markup).
C23_FieldsAddNoMarkup ==
    lastOp = "generate_html_report"
        => \A i \in 1..Len(html[1].returned) : html[1].returned[i] \notin MarkupCharacters


\* The sequence sub lies in s as one stretch.
Occurs(sub, s) ==
    \E k \in 0..(Len(s) - Len(sub)) : SubSeq(s, k + 1, k + Len(sub)) = sub

\* The response is a JSON array of comments: parse_response returns its
\* comments, and their fields are strings (line: a number or null).
IsArrayOfComments(text) ==
    /\ IsNone(parse_response(text).raised)
    /\ \A i \in 1..Len(parse_response(text).returned) :
         LET c == parse_response(text).returned[i]
         IN  /\ \A value \in {c.file, c.issue, c.suggestion, c.severity} : value.t = "str"
             /\ \A value \in {c.category, c.wcag_criteria} : value.t \in {"str", "NoneType"}

\* C24: when the filtered diff of the pull request is not empty and Claude
\* answers with a JSON array of comments, review_pr raises nothing and
\* returns the comments of the answer, in order, with a report that names
\* the file of each comment.
C24_ReviewCompletes ==
    (/\ lastOp = "review_pr"
     /\ ~StripIsEmpty(review[1].filtered_diff)
     /\ IsArrayOfComments(response_text[1]))
        => /\ IsNone(review[1].raised)
           /\ review[1].returned[1][1] = parse_response(response_text[1]).returned
           /\ \A i \in 1..Len(review[1].returned[1][1]) :
                Occurs(escape(review[1].returned[1][1][i].file.v), review[1].returned[1][2])


\* The index of the first line of s that begins with `--- a/`, and one more
\* than the number of lines if there is none.
FirstHeader(s) ==
    LET lines == Split(s)
        headers == { i \in 1..Len(lines) : StartsWith(lines[i], HeaderA) }
    IN  IF headers = {} THEN Len(lines) + 1
        ELSE CHOOSE i \in headers : \A j \in headers : i <= j

\* The lines of all segments, one after the other.
RECURSIVE SegmentLinesOf(_)
SegmentLinesOf(file_diffs) ==
    IF Len(file_diffs) = 0 THEN <<>>
    ELSE Split(file_diffs[1].content) \o SegmentLinesOf(Tail(file_diffs))

\* No `--- a/` line in s.
NoHeader(s) == FirstHeader(s) > Len(Split(s))

\* C25: the lines before the first line that begins with `--- a/` are in no
\* segment (the lines of the segments are lines from that line on, in
\* order, and the first segment begins with that line); an input without
\* such a line has no segment, filter_diff returns the empty string for it
\* and get_summary zeros.
C25_LeadingLinesDiscarded ==
    /\ lastOp = "_parse_diff_by_files"
         => /\ IsSubseq(SegmentLinesOf(files),
                        SubSeq(Split(diff), FirstHeader(diff), Len(Split(diff))))
            /\ Len(files) > 0
                 => Split(files[1].content)[1] = Split(diff)[FirstHeader(diff)]
            /\ NoHeader(diff) => files = <<>>
    /\ (lastOp = "filter_diff" /\ NoHeader(diff)) => result = <<>>
    /\ (lastOp = "get_summary" /\ NoHeader(diff))
         => summary = Some([files_changed |-> 0, additions |-> 0, deletions |-> 0,
                            total_changes |-> 0])

\* A diff with an added line before its first header has been segmented:
\* one segment, in which the line is not counted.
C25_Witness ==
    /\ lastOp = "_parse_diff_by_files"
    /\ FirstHeader(diff) = 2
    /\ Split(diff)[1] = <<"+", "n">>
    /\ Len(files) = 1
    /\ files[1].additions = 0


\* C26: _filter_diff is idempotent: a second pass over the result of the
\* first returns that result, also when the first pass cut it at
\* MAX_DIFF_SIZE.  After the second call `diff` is the first result and
\* `result` the second.
C26_ReviewFilterIdempotent ==
    (lastOp = "_filter_diff" /\ passes >= 2) => result = diff

\* The step from the first filter_diff(d) to get_summary of its result.
SummaryOfFiltered ==
    lastOp = "filter_diff" /\ passes = 1 /\ lastOp' = "get_summary"

\* C27: get_summary(filter_diff(d)) is the aggregate over the segments of d
\* that the retention predicate keeps: as many files as retained segments,
\* the sums of their additions and deletions, and the separators of the
\* join counted nowhere.  Before the step `diff` is d; after it `summary` is
\* the summary of the filtered text.
C27_SummaryOfFilteredIsRetainedAggregate ==
    [][SummaryOfFiltered =>
         LET kept == Retained(diff_filter, parse_diff_by_files(diff))
         IN  /\ summary'[1].files_changed = Len(kept)
             /\ summary'[1].additions = AdditionsUpTo(kept, Len(kept))
             /\ summary'[1].deletions = DeletionsUpTo(kept, Len(kept))
             /\ summary'[1].total_changes
                  = AdditionsUpTo(kept, Len(kept)) + DeletionsUpTo(kept, Len(kept))]_vars

\* The summary of a filtered text of two retained segments with a changed
\* line, by an object that drops files: the text holds the separator.
C27_Witness ==
    /\ lastOp = "get_summary"
    /\ passes = 1
    /\ summary[1].files_changed = 2
    /\ summary[1].total_changes = 1
    /\ Len(diff_filter.exclude_patterns) > 0
    /\ \E i \in 1..Len(Split(diff)) : Split(diff)[i] = <<>>

\* C28: the `--- a/` header of a file and the `+++ b/` header behind it are
\* kept or dropped together: in the output, every `+++ b/` line follows a
\* `--- a/` line directly, whenever that is so in the input, and every
\* `--- a/` line that a `+++ b/` line followed in the input is followed by
\* one in the output.  Only outputs that the size check left whole are
\* looked at.
C28_HeadersKeptTogether ==
    (/\ lastOp = "_filter_diff"
     /\ passes = 1
     /\ result = untruncated
     /\ \A i \in 1..Len(Split(diff)) :
          /\ StartsWith(Split(diff)[i], HeaderB)
               => i > 1 /\ StartsWith(Split(diff)[i - 1], HeaderA)
          /\ StartsWith(Split(diff)[i], HeaderA)
               => i < Len(Split(diff)) /\ StartsWith(Split(diff)[i + 1], HeaderB))
        => \A i \in 1..Len(Split(result)) :
             /\ StartsWith(Split(result)[i], HeaderB)
                  => i > 1 /\ StartsWith(Split(result)[i - 1], HeaderA)
             /\ StartsWith(Split(result)[i], HeaderA)
                  => i < Len(Split(result)) /\ StartsWith(Split(result)[i + 1], HeaderB)

\* The lines of s that are not empty.
NonBlankLines(s) == SelectSeq(Split(s), LAMBDA l : l # <<>>)

\* C29: on a diff that _get_pr_diff made, _filter_diff, when it cuts
\* nothing, and filter_diff of a DiffFilter with EXCLUDE_PATTERNS as its
\* exclude patterns keep the same files and lines in the same order: left
\* aside their empty lines, the two outputs are the same.
C29_SameFilesAsDiffFilter ==
    (/\ lastOp = "_filter_diff"
     /\ ~IsNone(pull_request)
     /\ result = untruncated)
        => NonBlankLines(result) = NonBlankLines(filter_diff(diff_filter, diff))

\* The files of a pull request that have a patch, in order.
Patched(file_list) == SelectSeq(file_list, LAMBDA f : Truthy(f.patch))

\* The lines _get_pr_diff emits for a list of patched files.
RECURSIVE Emitted(_)
Emitted(file_list) ==
    IF Len(file_list) = 0 THEN <<>>
    ELSE << HeaderA \o file_list[1].filename, HeaderB \o file_list[1].filename >>
           \o Split(file_list[1].patch[1]) \o << <<>> >> \o Emitted(Tail(file_list))

\* C30: _get_pr_diff emits, for each file with a patch and in the order of
\* the files, the two header lines, the patch and one empty line, and
\* nothing for the other files; _parse_diff_by_files makes of that text one
\* segment per patched file, in the same order and with its filename.
C30_OneSegmentPerPatchedFile ==
    /\ (~IsNone(pull_request) /\ lastOp # "init")
         => Split(diff) = (IF Patched(pull_request[1]) = <<>> THEN << <<>> >>
                           ELSE Emitted(Patched(pull_request[1])))
    /\ (~IsNone(pull_request) /\ lastOp = "_parse_diff_by_files")
         => FileNamesOf(files)
              = [i \in 1..Len(Patched(pull_request[1])) |->
                   Patched(pull_request[1])[i].filename]
=============================================================================
